---- MODULE Spec2Model ----
(***************************************************************************)
(* Business Intelligence MCP server: the call-tool dispatcher, the         *)
(* SecurityManager validators, the where-clause builders, the analytics    *)
(* and record-management handlers, over the relational store.              *)
(***************************************************************************)
EXTENDS Integers, Sequences, FiniteSets, TLC

VARIABLES
  db,        \* the relational store: one set of rows per table
  phase,     \* position of the call in flight: Idle, Received, Validated, SchemaValidated, Completed, Failed
  request,   \* the inbound CallTool request
  thrown,    \* message of the exception raised inside the try block of the call ("" when none)
  response,  \* value returned by the call-tool handler
  invoked,   \* the service method routeRequest called for this call ("none" before routing)
  issued,    \* the SQL statements sent to the store during this call, in order
  result,    \* the value the routed handler returned
  dbBefore,  \* the store as it was when the call was received
  unit,      \* a direct call of one method or computation: [fn, arg, out]
  server     \* the process: position of run(), instances built of each service, transport connected

vars ==
  <<db, phase, request, thrown, response, invoked, issued, result, dbBefore, unit, server>>

----------------------------------------------------------------------------
(* Bounds of the model *)

\* longest array given as a filter value
MaxValues == 1

\* largest number of keys in the update map of update_customer_info
MaxUpdateKeys == 1

\* largest inventory quantity and reorder level the stock-status bucket is computed for
MaxQuantity == 6
MaxReorderLevel == 3

\* largest number of whole days since the last order the churn bucket is computed for
MaxDays == 92

\* the years the current date is drawn from: MaxYears years from FirstYear on
MaxYears == 1

\* longest list of updates passed to updateInventoryLevels
MaxUpdates == 2

\* most months of order history a forecast is computed from
MaxMonths == 8

\* longest recommendation list an implementation plan is built for (at most the
\* nine strings of the merged list)
MaxRecommendations == 6

----------------------------------------------------------------------------
(* JavaScript values *)

Undefined == "<undefined>"

\* a JavaScript number: a finite value (kept as an integer), NaN or Infinity
Num(n) == [k |-> "num", v |-> n]
NaN == [k |-> "NaN", v |-> 0]
Infinity == [k |-> "Infinity", v |-> 0]

\* (x / y) * 100 on JavaScript numbers, null operands already coerced to 0;
\* a finite result is kept in hundredths of a percent
JsPercent(x, y) ==
  IF y = 0
    THEN (IF x = 0 THEN NaN ELSE Infinity)
    ELSE Num((x * 10000) \div y)

\* JSON.stringify of a number: NaN and Infinity are written as null
JsonNumber(x) == IF x.k = "num" THEN x ELSE [k |-> "null", v |-> 0]

RECURSIVE SumSeq(_)
SumSeq(s) == IF s = <<>> THEN 0 ELSE Head(s) + SumSeq(Tail(s))

RECURSIVE SetToSeq(_)
SetToSeq(S) ==
  IF S = {} THEN <<>>
  ELSE LET x == CHOOSE y \in S : TRUE IN <<x>> \o SetToSeq(S \ {x})

RECURSIVE Flatten(_)
Flatten(ss) == IF ss = <<>> THEN <<>> ELSE Head(ss) \o Flatten(Tail(ss))

----------------------------------------------------------------------------
(* The store schema: DatabaseManager.createTables *)

CustomersColumns ==
  {"id", "name", "email", "phone", "company", "industry", "location",
   "customer_tier", "acquisition_date", "total_spent", "last_order_date",
   "status", "notes"}

ProductsColumns ==
  {"id", "name", "category", "subcategory", "price", "cost", "sku",
   "description", "brand", "weight", "dimensions", "status", "launch_date"}

SalesRepsColumns == {"id", "name", "email", "region", "hire_date", "performance"}

OrdersColumns ==
  {"id", "customer_id", "order_date", "status", "total_amount",
   "shipping_address", "payment_method", "notes", "sales_rep_id", "region"}

OrderItemsColumns ==
  {"id", "order_id", "product_id", "quantity", "unit_price", "total_price"}

InventoryColumns ==
  {"id", "product_id", "warehouse", "quantity", "reorder_level", "last_updated"}

TableColumns(t) ==
  CASE t = "customers" -> CustomersColumns
    [] t = "products" -> ProductsColumns
    [] t = "sales_reps" -> SalesRepsColumns
    [] t = "orders" -> OrdersColumns
    [] t = "order_items" -> OrderItemsColumns
    [] t = "inventory" -> InventoryColumns

----------------------------------------------------------------------------
(* The store contents after construction: seedSampleData *)

SeedCustomers ==
  { [id |-> "CUST001", name |-> "John Smith", industry |-> "Technology",
     customer_tier |-> "platinum", total_spent |-> 125000,
     last_order_date |-> "2024-01-10", status |-> "active"],
    [id |-> "CUST002", name |-> "Sarah Johnson", industry |-> "Retail",
     customer_tier |-> "gold", total_spent |-> 85000,
     last_order_date |-> "2024-01-08", status |-> "active"],
    [id |-> "CUST003", name |-> "Michael Chen", industry |-> "Manufacturing",
     customer_tier |-> "silver", total_spent |-> 45000,
     last_order_date |-> "2023-12-15", status |-> "active"],
    [id |-> "CUST005", name |-> "Robert Wilson", industry |-> "Finance",
     customer_tier |-> "bronze", total_spent |-> 15000,
     last_order_date |-> "2023-12-20", status |-> "prospect"] }

SeedProducts ==
  { [id |-> "PROD001", category |-> "Hardware", price |-> 15000, cost |-> 10000, status |-> "active"],
    [id |-> "PROD002", category |-> "Software", price |-> 2500, cost |-> 500, status |-> "active"],
    [id |-> "PROD003", category |-> "Hardware", price |-> 8500, cost |-> 5500, status |-> "active"],
    [id |-> "PROD004", category |-> "Services", price |-> 500, cost |-> 200, status |-> "active"],
    [id |-> "PROD005", category |-> "Software", price |-> 12000, cost |-> 3000, status |-> "active"] }

SeedSalesReps ==
  { [id |-> "REP001", region |-> "West Coast"],
    [id |-> "REP002", region |-> "East Coast"],
    [id |-> "REP003", region |-> "Midwest"] }

SeedOrders ==
  { [id |-> "ORD001", customer_id |-> "CUST001", order_date |-> "2024-01-10",
     status |-> "delivered", total_amount |-> 45000, sales_rep_id |-> "REP001",
     region |-> "West Coast"],
    [id |-> "ORD002", customer_id |-> "CUST002", order_date |-> "2024-01-08",
     status |-> "shipped", total_amount |-> 25000, sales_rep_id |-> "REP002",
     region |-> "East Coast"],
    [id |-> "ORD003", customer_id |-> "CUST003", order_date |-> "2023-12-15",
     status |-> "delivered", total_amount |-> 18000, sales_rep_id |-> "REP003",
     region |-> "Midwest"] }

SeedOrderItems ==
  { [id |-> "ITEM001", order_id |-> "ORD001", product_id |-> "PROD001", quantity |-> 2, unit_price |-> 15000, total_price |-> 30000],
    [id |-> "ITEM002", order_id |-> "ORD001", product_id |-> "PROD002", quantity |-> 6, unit_price |-> 2500, total_price |-> 15000],
    [id |-> "ITEM003", order_id |-> "ORD002", product_id |-> "PROD003", quantity |-> 2, unit_price |-> 8500, total_price |-> 17000],
    [id |-> "ITEM004", order_id |-> "ORD002", product_id |-> "PROD004", quantity |-> 16, unit_price |-> 500, total_price |-> 8000],
    [id |-> "ITEM005", order_id |-> "ORD003", product_id |-> "PROD005", quantity |-> 1, unit_price |-> 12000, total_price |-> 12000],
    [id |-> "ITEM006", order_id |-> "ORD003", product_id |-> "PROD002", quantity |-> 2, unit_price |-> 2500, total_price |-> 5000],
    [id |-> "ITEM007", order_id |-> "ORD003", product_id |-> "PROD004", quantity |-> 1, unit_price |-> 500, total_price |-> 500] }

SeedInventory ==
  { [id |-> "INV001", product_id |-> "PROD001", warehouse |-> "West Coast", quantity |-> 15, reorder_level |-> 5],
    [id |-> "INV002", product_id |-> "PROD002", warehouse |-> "Central", quantity |-> 100, reorder_level |-> 20],
    [id |-> "INV003", product_id |-> "PROD003", warehouse |-> "East Coast", quantity |-> 8, reorder_level |-> 3],
    [id |-> "INV004", product_id |-> "PROD004", warehouse |-> "Cloud", quantity |-> 999, reorder_level |-> 50],
    [id |-> "INV005", product_id |-> "PROD005", warehouse |-> "Central", quantity |-> 12, reorder_level |-> 4] }

\* the store of the seeding DatabaseManager
SeededStore ==
  [customers |-> SeedCustomers, products |-> SeedProducts,
   sales_reps |-> SeedSalesReps, orders |-> SeedOrders,
   order_items |-> SeedOrderItems, inventory |-> SeedInventory]

\* the store of the DatabaseManager whose seedSampleData inserts nothing
EmptyStore ==
  [customers |-> {}, products |-> {}, sales_reps |-> {}, orders |-> {},
   order_items |-> {}, inventory |-> {}]

\* a store read back from business_data.db in which one customer has a second order
RepeatOrderStore ==
  [SeededStore EXCEPT !.orders = @ \cup
     {[id |-> "ORD004", customer_id |-> "CUST001", order_date |-> "2023-12-01",
       status |-> "delivered", total_amount |-> 10000, sales_rep_id |-> "REP001",
       region |-> "West Coast"]}]

\* the contents the database file is opened with
Stores == {EmptyStore, SeededStore, RepeatOrderStore}

----------------------------------------------------------------------------
(* Filter maps and date ranges as they arrive in a request *)

\* one element of a filter array, with the text `${value}` gives for it
StringElem(s) == [t |-> "string", v |-> s]
NumberElem == [t |-> "number", v |-> "7"]

ArrayValue(items) == [kind |-> "array", items |-> items, text |-> ""]
NumberValue == [kind |-> "number", items |-> <<>>, text |-> "42"]
StringValue(s) == [kind |-> "string", items |-> <<>>, text |-> s]
NullValue == [kind |-> "null", items |-> <<>>, text |-> ""]
ObjectValue == [kind |-> "object", items |-> <<>>, text |-> ""]

\* a JavaScript object as its entries in insertion order
Entry(k, v) == [key |-> k, value |-> v]
Keys(obj) == {obj[i].key : i \in 1..Len(obj)}
Has(obj, k) == k \in Keys(obj)
Get(obj, k) == obj[CHOOSE i \in 1..Len(obj) : obj[i].key = k].value

\* an optional property: absent (undefined) or present with a value
Absent == [present |-> FALSE, val |-> <<>>]
Present(v) == [present |-> TRUE, val |-> v]

\* truthiness of a filter value
Truthy(v) ==
  CASE v.kind = "array" -> TRUE
    [] v.kind = "object" -> TRUE
    [] v.kind = "null" -> FALSE
    [] v.kind = "string" -> v.text # ""
    [] v.kind = "number" -> v.text # "0"

\* value.length > 0 (undefined > 0 is false)
LengthPositive(v) ==
  CASE v.kind = "array" -> Len(v.items) > 0
    [] v.kind = "string" -> v.text # ""
    [] OTHER -> FALSE

\* the strings a date field is given, in the order SQLite compares text
DateTexts ==
  <<"", "2023-12-01", "2023-12-15", "2024-01-01", "2024-01-08", "2024-01-10",
    "2024-03-01", "not-a-date">>

TextRank(s) == CHOOSE i \in 1..Len(DateTexts) : DateTexts[i] = s

\* new Date(s).getTime(): a number for a date string, NaN otherwise
DateGetTime(s) ==
  IF s \in {"", "not-a-date"} THEN NaN ELSE Num(TextRank(s))

\* dateRange?.start and dateRange?.end as JavaScript reads them
StartOf(dateRange) == IF dateRange.present THEN dateRange.val.start ELSE Undefined
EndOf(dateRange) == IF dateRange.present THEN dateRange.val.end ELSE Undefined
TruthyString(s) == s # Undefined /\ s # ""

----------------------------------------------------------------------------
(* SecurityManager *)

Ok == [ok |-> TRUE, error |-> ""]
Throw(msg) == [ok |-> FALSE, error |-> msg]

\* the tokens jwt.verify accepts; every other token is invalid or expired
ValidTokens == {"token-valid"}

verifyToken(token) ==
  IF token \in ValidTokens THEN Ok ELSE Throw("Invalid or expired token")

authenticateRequest(req) ==
  LET tokenFromMeta == req.params.meta.authToken
      tokenFromArgs ==
        IF req.params.arguments.present
          THEN req.params.arguments.val.authToken ELSE Undefined
      token == IF TruthyString(tokenFromMeta) THEN tokenFromMeta ELSE tokenFromArgs
  IN IF ~TruthyString(token)
       THEN Throw("Authentication required: missing token")
       ELSE verifyToken(token)

validateRequest(req) ==
  IF ~req.hasParams THEN Throw("Invalid request format")
  ELSE IF req.params.name = "" \/ ~req.params.arguments.present
    THEN Throw("Missing required parameters")
  ELSE IF req.params.name \notin {"business_intelligence"}
    THEN Throw("Invalid tool name")
  ELSE Ok

isValidDate(dateString) == DateGetTime(dateString).k # "NaN"

validateDateRange(dateRange) ==
  IF ~dateRange.present THEN Ok
  ELSE LET start == dateRange.val.start
           end == dateRange.val.end
       IN IF TruthyString(start) /\ ~isValidDate(start)
            THEN Throw("Invalid start date format")
          ELSE IF TruthyString(end) /\ ~isValidDate(end)
            THEN Throw("Invalid end date format")
          ELSE IF TruthyString(start) /\ TruthyString(end)
                  /\ DateGetTime(start).v > DateGetTime(end).v
            THEN Throw("Start date cannot be after end date")
          ELSE Ok

validFilterKeys == {"customerTier", "industry", "region", "productCategory", "status"}

\* the check of one entry of the filter map, in the order of the loop body
validateFilterEntry(e) ==
  IF e.key \notin validFilterKeys THEN Throw("Invalid filter key")
  ELSE IF e.value.kind = "array"
          /\ \E i \in 1..Len(e.value.items) : e.value.items[i].t # "string"
    THEN Throw("Invalid filter value type")
  ELSE Ok

RECURSIVE validateFilterEntries(_)
validateFilterEntries(entries) ==
  IF entries = <<>> THEN Ok
  ELSE IF ~validateFilterEntry(Head(entries)).ok
    THEN validateFilterEntry(Head(entries))
  ELSE validateFilterEntries(Tail(entries))

validateFilters(filters) ==
  IF ~filters.present THEN Ok ELSE validateFilterEntries(filters.val)

----------------------------------------------------------------------------
(* Where-clause builders *)

Cond(alias, column, op, lits) ==
  [alias |-> alias, column |-> column, op |-> op, lits |-> lits]

Clause(conds) == [error |-> "", conds |-> conds]
ClauseThrows(msg) == [error |-> msg, conds |-> <<>>]

\* `column IN ('${v1}', '${v2}')` for one filter key, or nothing
InCondition(filters, key, alias, column) ==
  IF ~Has(filters, key) THEN Clause(<<>>)
  ELSE LET v == Get(filters, key)
       IN IF ~(Truthy(v) /\ LengthPositive(v)) THEN Clause(<<>>)
          ELSE IF v.kind # "array" THEN ClauseThrows("TypeError: map is not a function")
          ELSE Clause(<<Cond(alias, column, "IN",
                             [i \in 1..Len(v.items) |-> v.items[i].v])>>)

DateConditions(dateRange) ==
  (IF TruthyString(StartOf(dateRange))
     THEN <<Cond("o", "order_date", ">=", <<StartOf(dateRange)>>)>> ELSE <<>>)
  \o
  (IF TruthyString(EndOf(dateRange))
     THEN <<Cond("o", "order_date", "<=", <<EndOf(dateRange)>>)>> ELSE <<>>)

\* the conditions pushed in order; the first throwing map() ends the build
RECURSIVE JoinClauses(_)
JoinClauses(cs) ==
  IF cs = <<>> THEN Clause(<<>>)
  ELSE IF Head(cs).error # "" THEN Head(cs)
  ELSE LET rest == JoinClauses(Tail(cs))
       IN IF rest.error # "" THEN rest ELSE Clause(Head(cs).conds \o rest.conds)

AnalyticsBuildWhereClause(filters, dateRange) ==
  JoinClauses(<<InCondition(filters, "customerTier", "c", "customer_tier"),
                InCondition(filters, "industry", "c", "industry"),
                InCondition(filters, "region", "o", "region"),
                InCondition(filters, "productCategory", "p", "category"),
                InCondition(filters, "status", "o", "status"),
                Clause(DateConditions(dateRange))>>)

SalesBuildWhereClause(filters, dateRange) ==
  JoinClauses(<<InCondition(filters, "customerTier", "c", "customer_tier"),
                InCondition(filters, "industry", "c", "industry"),
                InCondition(filters, "region", "o", "region"),
                InCondition(filters, "status", "o", "status"),
                Clause(DateConditions(dateRange))>>)

InventoryBuildWhereClause(filters, dateRange) ==
  JoinClauses(<<InCondition(filters, "customerTier", "c", "customer_tier"),
                InCondition(filters, "industry", "c", "industry"),
                InCondition(filters, "region", "o", "region"),
                InCondition(filters, "productCategory", "p", "category"),
                Clause(DateConditions(dateRange))>>)

ReportBuildWhereClause(filters, dateRange) ==
  JoinClauses(<<InCondition(filters, "customerTier", "c", "customer_tier"),
                InCondition(filters, "industry", "c", "industry"),
                InCondition(filters, "region", "o", "region"),
                InCondition(filters, "status", "o", "status"),
                Clause(DateConditions(dateRange))>>)

\* the text of the clause: the literals are spliced between quotes
QuotedList(lits) == Flatten([i \in 1..Len(lits) |-> <<"'", lits[i], "'">>])

CondText(c) == <<c.alias, c.column, c.op>> \o QuotedList(c.lits)

WhereText(conds) ==
  IF conds = <<>> THEN <<>>
  ELSE <<"WHERE">> \o Flatten([i \in 1..Len(conds) |-> CondText(conds[i])])

----------------------------------------------------------------------------
(* Statements and their execution by the store *)

\* FROM/JOIN lists of the queries: alias -> table
FromCO == [c |-> "customers", o |-> "orders"]
FromOIPOC == [oi |-> "order_items", p |-> "products", o |-> "orders", c |-> "customers"]
FromSROC == [sr |-> "sales_reps", o |-> "orders", c |-> "customers"]
FromOCSR == [o |-> "orders", c |-> "customers", sr |-> "sales_reps"]
FromIP == [i |-> "inventory", p |-> "products"]
FromPI == [p |-> "products", i |-> "inventory"]

\* one query site of a handler: its FROM list, the column names it uses
\* without a table alias, and the where clause built for it
Step(site, from, cols, clause) ==
  [site |-> site, from |-> from, cols |-> cols, clause |-> clause]

\* the statement text handed to the store, with its bound parameters
Statement(site, conds, params) ==
  [sql |-> <<site>> \o WhereText(conds), params |-> params]

\* how many of the joined tables hold a column of that name
Holders(from, col) == {a \in DOMAIN from : col \in TableColumns(from[a])}

\* SQLite's message for a condition whose table alias the query does not define
NoSuchColumn(cond) ==
  CASE cond.alias = "p" -> "SQLITE_ERROR: no such column: p.category"
    [] cond.column = "customer_tier" -> "SQLITE_ERROR: no such column: c.customer_tier"
    [] cond.column = "industry" -> "SQLITE_ERROR: no such column: c.industry"
    [] cond.column = "region" -> "SQLITE_ERROR: no such column: o.region"
    [] cond.column = "status" -> "SQLITE_ERROR: no such column: o.status"
    [] OTHER -> "SQLITE_ERROR: no such column: o.order_date"

\* the error SQLite raises when it prepares the statement ("" when none)
StatementError(step) ==
  IF \E col \in step.cols : Cardinality(Holders(step.from, col)) > 1
    THEN "SQLITE_ERROR: ambiguous column name"
  ELSE IF \E col \in step.cols : Holders(step.from, col) = {}
    THEN "SQLITE_ERROR: no such column"
  ELSE IF \E i \in 1..Len(step.clause.conds) :
            step.clause.conds[i].alias \notin DOMAIN step.from
    THEN NoSuchColumn(step.clause.conds[
           CHOOSE i \in 1..Len(step.clause.conds) :
             /\ step.clause.conds[i].alias \notin DOMAIN step.from
             /\ \A j \in 1..(i - 1) : step.clause.conds[j].alias \in DOMAIN step.from])
  ELSE ""

\* the awaits of a handler in order: building a clause may throw before its
\* query is issued, and a statement the store rejects ends the handler
RECURSIVE RunSteps(_)
RunSteps(steps) ==
  IF steps = <<>> THEN [error |-> "", issued |-> <<>>]
  ELSE LET s == Head(steps)
           stmt == Statement(s.site, s.clause.conds, <<>>)
       IN IF s.clause.error # "" THEN [error |-> s.clause.error, issued |-> <<>>]
          ELSE IF StatementError(s) # ""
            THEN [error |-> StatementError(s), issued |-> <<stmt>>]
          ELSE LET rest == RunSteps(Tail(steps))
               IN [error |-> rest.error, issued |-> <<stmt>> \o rest.issued]

\* does a joined row satisfy one condition of the clause
Satisfies(value, cond) ==
  CASE cond.op = "IN" -> value \in {cond.lits[i] : i \in 1..Len(cond.lits)}
    [] cond.op = ">=" -> TextRank(value) >= TextRank(cond.lits[1])
    [] cond.op = "<=" -> TextRank(value) <= TextRank(cond.lits[1])

RowField(row, cond) == row[cond.alias][cond.column]

Matches(row, conds) ==
  \A i \in 1..Len(conds) : Satisfies(RowField(row, conds[i]), conds[i])

\* orders o JOIN customers c ON o.customer_id = c.id, filtered
OrderRows(store, conds) ==
  { row \in { [o |-> o, c |-> c] : o \in store.orders, c \in store.customers } :
      row.o.customer_id = row.c.id /\ Matches(row, conds) }

\* order_items oi JOIN products p JOIN orders o JOIN customers c, filtered
ItemRows(store, conds) ==
  { row \in { [oi |-> oi, p |-> p, o |-> oc.o, c |-> oc.c] :
                oi \in store.order_items, p \in store.products,
                oc \in OrderRows(store, <<>>) } :
      /\ row.oi.product_id = row.p.id
      /\ row.oi.order_id = row.o.id
      /\ Matches(row, conds) }

\* SUM(o.total_amount) over joined rows; SQLite's NULL for no rows is read as 0
SumTotalAmount(rows) ==
  LET s == SetToSeq(rows) IN SumSeq([i \in 1..Len(s) |-> s[i].o.total_amount])

\* SUM(oi.total_price) - SUM(oi.quantity * p.cost) over joined item rows
SumProfit(rows) ==
  LET s == SetToSeq(rows)
  IN SumSeq([i \in 1..Len(s) |-> s[i].oi.total_price - s[i].oi.quantity * s[i].p.cost])

----------------------------------------------------------------------------
(* Handler outcomes *)

AnalyticsResultFields == {"data", "insights", "recommendations", "metrics", "trends"}

NoMetrics == [m \in {} |-> NaN]

\* what a handler leaves behind: the exception it threw ("" when it returned),
\* the top-level fields and the ratio metrics of the value it returned, the
\* statements it issued and the store after it
Outcome(error, fields, metrics, stmts, store) ==
  [error |-> error, fields |-> fields, metrics |-> metrics,
   issued |-> stmts, db |-> store]

\* a handler whose queries would clear the tables they read
ReadOutcomeClearingStore(run, fields, metrics, store) ==
  IF run.error # ""
    THEN Outcome(run.error, {}, NoMetrics, run.issued, EmptyStore)
    ELSE Outcome("", fields, metrics, run.issued, EmptyStore)

\* a read-only handler: its queries run, then its result is assembled
ReadOutcome(run, fields, metrics, store) ==
  IF run.error # ""
    THEN Outcome(run.error, {}, NoMetrics, run.issued, store)
    ELSE Outcome("", fields, metrics, run.issued, store)

----------------------------------------------------------------------------
(* AnalyticsEngine *)

getCustomerAnalytics(store, filters, dateRange) ==
  LET w == AnalyticsBuildWhereClause(filters, dateRange)
      run == RunSteps(<<
        Step("getCustomerAnalytics.totalCustomers", FromCO, {}, w),
        Step("getCustomerAnalytics.customerTierDistribution", FromCO,
             {"customer_tier", "total_spent"}, w),
        Step("getCustomerAnalytics.industryBreakdown", FromCO,
             {"industry", "total_spent"}, w),
        Step("getCustomerAnalytics.customerLifetimeValue", FromCO,
             {"total_spent"}, w)>>)
  IN ReadOutcome(run, AnalyticsResultFields, NoMetrics, store)

getSalesPerformance(store, filters, dateRange) ==
  LET w == AnalyticsBuildWhereClause(filters, dateRange)
      run == RunSteps(<<
        Step("getSalesPerformance.salesMetrics", FromCO,
             {"total_amount", "customer_id"}, w),
        Step("getSalesPerformance.monthlySales", FromCO,
             {"order_date", "total_amount"}, w),
        Step("getSalesPerformance.salesRepPerformance", FromSROC, {}, w)>>)
  IN ReadOutcome(run, AnalyticsResultFields, NoMetrics, store)

getInventoryInsights(store, filters) ==
  LET run == RunSteps(<<
        Step("getInventoryInsights.inventoryStatus", FromIP, {}, Clause(<<>>)),
        Step("getInventoryInsights.categoryBreakdown", FromIP, {}, Clause(<<>>)),
        Step("getInventoryInsights.warehouseDistribution", FromIP,
             {"warehouse", "quantity"}, Clause(<<>>))>>)
  IN ReadOutcome(run, AnalyticsResultFields, NoMetrics, store)

predictSalesTrends(store, filters, dateRange) ==
  LET run == RunSteps(<<
        Step("predictSalesTrends.historicalData", FromCO,
             {"order_date", "total_amount"},
             AnalyticsBuildWhereClause(filters, dateRange))>>)
  IN ReadOutcome(run, AnalyticsResultFields, NoMetrics, store)

analyzeCustomerBehavior(store, filters, dateRange) ==
  LET w == AnalyticsBuildWhereClause(filters, dateRange)
      run == RunSteps(<<
        Step("analyzeCustomerBehavior.customerSegments", FromCO,
             {"customer_tier", "total_spent", "acquisition_date"}, w),
        Step("analyzeCustomerBehavior.purchasePatterns", FromCO,
             {"order_date", "total_amount"}, w),
        Step("analyzeCustomerBehavior.customerRetention", FromCO,
             {"customer_id"}, w)>>)
      rows == OrderRows(store, w.conds)
      total_customers == {r.o.customer_id : r \in rows}
      repeat_customers ==
        {cid \in total_customers :
           Cardinality({r \in rows : r.o.customer_id = cid}) > 1}
      retentionRate ==
        JsPercent(Cardinality(repeat_customers), Cardinality(total_customers))
  IN ReadOutcome(run, AnalyticsResultFields,
                 [retentionRate |-> retentionRate], store)

getRevenueForecast(store, filters, dateRange) ==
  LET w == AnalyticsBuildWhereClause(filters, dateRange)
      run == RunSteps(<<
        Step("getRevenueForecast.currentRevenue", FromCO, {"total_amount"}, w),
        Step("getRevenueForecast.monthlyGrowth", FromCO,
             {"order_date", "total_amount"}, w)>>)
  IN ReadOutcome(run, AnalyticsResultFields, NoMetrics, store)

identifyTopProducts(store, filters, dateRange) ==
  LET w == AnalyticsBuildWhereClause(filters, dateRange)
      run == RunSteps(<<
        Step("identifyTopProducts.topProducts", FromOIPOC, {}, w),
        Step("identifyTopProducts.categoryPerformance", FromOIPOC, {}, w)>>)
  IN ReadOutcome(run, AnalyticsResultFields, NoMetrics, store)

analyzeMarketSegments(store, filters, dateRange) ==
  LET w == AnalyticsBuildWhereClause(filters, dateRange)
      run == RunSteps(<<
        Step("analyzeMarketSegments.segmentAnalysis", FromCO, {}, w),
        Step("analyzeMarketSegments.geographicAnalysis", FromCO, {}, w)>>)
  IN ReadOutcome(run, AnalyticsResultFields, NoMetrics, store)

getOperationalMetrics(store, filters, dateRange) ==
  LET w == AnalyticsBuildWhereClause(filters, dateRange)
      run == RunSteps(<<
        Step("getOperationalMetrics.orderMetrics", FromCO,
             {"status", "order_date"}, w),
        Step("getOperationalMetrics.paymentMethods", FromCO,
             {"payment_method", "total_amount"}, w)>>)
      rows == OrderRows(store, w.conds)
      total_orders == Cardinality(rows)
      delivered_orders == Cardinality({r \in rows : r.o.status = "delivered"})
      cancelled_orders == Cardinality({r \in rows : r.o.status = "cancelled"})
  IN ReadOutcome(run, AnalyticsResultFields,
                 [fulfillmentRate |-> JsPercent(delivered_orders, total_orders),
                  cancellationRate |-> JsPercent(cancelled_orders, total_orders)],
                 store)

analyzeGeographicSales(store, filters, dateRange) ==
  LET w == AnalyticsBuildWhereClause(filters, dateRange)
      run == RunSteps(<<
        Step("analyzeGeographicSales.geographicData", FromCO, {}, w),
        Step("analyzeGeographicSales.regionalPerformance", FromCO, {}, w)>>)
  IN ReadOutcome(run, AnalyticsResultFields, NoMetrics, store)

getFinancialSummary(store, filters, dateRange) ==
  LET w == AnalyticsBuildWhereClause(filters, dateRange)
      run == RunSteps(<<
        Step("getFinancialSummary.financialMetrics", FromCO, {}, w),
        Step("getFinancialSummary.productProfitability", FromOIPOC, {}, w)>>)
      total_revenue == SumTotalAmount(OrderRows(store, w.conds))
      totalProfit == SumProfit(ItemRows(store, w.conds))
      overallMargin == JsPercent(totalProfit, total_revenue)
  IN ReadOutcome(run, AnalyticsResultFields,
                 [profitMargin |-> overallMargin], store)

----------------------------------------------------------------------------
(* SalesService, InventoryService, CustomerService *)

\* a value of the parameter bag read as a condition: undefined, "" and 0 are falsy
Falsy(x) == x \in {Undefined, "", "0"}

\* createSalesOpportunity with the customer lookup left out: what the not-found
\* property of the operation rests on
createSalesOpportunityNoCustomerLookup(store, opportunityData) ==
  LET productId == opportunityData.productId
      findProduct ==
        [sql |-> <<"SELECT * FROM products WHERE id = ?">>, params |-> <<productId>>]
  IN IF Falsy(opportunityData.customerId) \/ Falsy(productId)
        \/ Falsy(opportunityData.quantity) \/ Falsy(opportunityData.estimatedValue)
       THEN Outcome("Missing required fields: customerId, productId, quantity, estimatedValue",
                    {}, NoMetrics, <<>>, store)
     ELSE IF ~\E p \in store.products : p.id = productId
       THEN Outcome("Product not found", {}, NoMetrics, <<findProduct>>, store)
     ELSE Outcome("", {"opportunity", "message", "nextSteps"}, NoMetrics,
                  <<findProduct>>, store)

createSalesOpportunity(store, opportunityData) ==
  LET customerId == opportunityData.customerId
      productId == opportunityData.productId
      findCustomer ==
        [sql |-> <<"SELECT * FROM customers WHERE id = ?">>, params |-> <<customerId>>]
      findProduct ==
        [sql |-> <<"SELECT * FROM products WHERE id = ?">>, params |-> <<productId>>]
  IN IF Falsy(customerId) \/ Falsy(productId) \/ Falsy(opportunityData.quantity)
        \/ Falsy(opportunityData.estimatedValue)
       THEN Outcome("Missing required fields: customerId, productId, quantity, estimatedValue",
                    {}, NoMetrics, <<>>, store)
     ELSE IF ~\E c \in store.customers : c.id = customerId
       THEN Outcome("Customer not found", {}, NoMetrics, <<findCustomer>>, store)
     ELSE IF ~\E p \in store.products : p.id = productId
       THEN Outcome("Product not found", {}, NoMetrics,
                    <<findCustomer, findProduct>>, store)
     ELSE Outcome("", {"opportunity", "message", "nextSteps"}, NoMetrics,
                  <<findCustomer, findProduct>>, store)

getOrderAnalytics(store, filters, dateRange) ==
  LET w == SalesBuildWhereClause(filters, dateRange)
      run == RunSteps(<<
        Step("getOrderAnalytics.orderMetrics", FromCO,
             {"total_amount", "customer_id", "status"}, w),
        Step("getOrderAnalytics.orderTrends", FromCO,
             {"order_date", "total_amount"}, w),
        Step("getOrderAnalytics.orderStatusDistribution", FromCO,
             {"status", "total_amount"}, w)>>)
      rows == OrderRows(store, w.conds)
      total_orders == Cardinality(rows)
      delivered_orders == Cardinality({r \in rows : r.o.status = "delivered"})
      cancelled_orders == Cardinality({r \in rows : r.o.status = "cancelled"})
  IN ReadOutcome(run,
                 {"orderMetrics", "orderTrends", "orderStatusDistribution",
                  "fulfillmentRate", "cancellationRate", "insights"},
                 [fulfillmentRate |-> JsPercent(delivered_orders, total_orders),
                  cancellationRate |-> JsPercent(cancelled_orders, total_orders)],
                 store)

checkInventoryLevels(store, parameters) ==
  LET category == parameters.category
      whereText ==
        <<"WHERE", "p.status = \"active\"">>
        \o (IF ~Falsy(category) THEN <<"AND", "p.category = ?">> ELSE <<>>)
      params == IF ~Falsy(category) THEN <<category>> ELSE <<>>
  IN Outcome("", {"inventory", "summary", "filters", "insights"}, NoMetrics,
             <<[sql |-> <<"checkInventoryLevels.inventory">> \o whereText, params |-> params],
               [sql |-> <<"checkInventoryLevels.summary">> \o whereText, params |-> params]>>,
             store)

getProductPerformance(store, filters, dateRange) ==
  LET w == InventoryBuildWhereClause(filters, dateRange)
      run == RunSteps(<<
        Step("getProductPerformance.productPerformance", FromOIPOC, {}, w),
        Step("getProductPerformance.categoryPerformance", FromOIPOC, {}, w)>>)
  IN ReadOutcome(run, {"productPerformance", "categoryPerformance", "insights"},
                 NoMetrics, store)

searchCustomers(store, searchParams) ==
  LET query == searchParams.query
      whereText ==
        IF ~Falsy(query)
          THEN <<"WHERE", "(c.name LIKE ? OR c.email LIKE ? OR c.company LIKE ?)">>
          ELSE <<>>
      params == (IF ~Falsy(query) THEN <<query, query, query>> ELSE <<>>) \o <<"50">>
  IN Outcome("", {"customers", "total", "searchParams"}, NoMetrics,
             <<[sql |-> <<"searchCustomers.customers">> \o whereText \o <<"LIMIT ?">>,
                params |-> params]>>,
             store)

getCustomerDetails(store, customerId) ==
  LET stmt(site) == [sql |-> <<site, "WHERE", "customer_id = ?">>, params |-> <<customerId>>]
      findCustomer ==
        [sql |-> <<"SELECT * FROM customers WHERE id = ?">>, params |-> <<customerId>>]
  IN IF ~\E c \in store.customers : c.id = customerId
       THEN Outcome("Customer not found", {}, NoMetrics, <<findCustomer>>, store)
       ELSE Outcome("", {"customer", "orders", "orderItems", "metrics", "summary"},
                    NoMetrics,
                    <<findCustomer, stmt("getCustomerDetails.orders"),
                      stmt("getCustomerDetails.orderItems"),
                      stmt("getCustomerDetails.customerMetrics")>>,
                    store)

allowedFields ==
  {"name", "email", "phone", "company", "industry", "location",
   "customer_tier", "status", "notes"}

\* the update map taken as it is, without the allow-list
updateFieldsUnfiltered(entries) == entries

\* the entries of the update map that pass the allow-list, in order
RECURSIVE updateFields(_)
updateFields(entries) ==
  IF entries = <<>> THEN <<>>
  ELSE (IF Head(entries).key \in allowedFields THEN <<Head(entries)>> ELSE <<>>)
       \o updateFields(Tail(entries))

\* UPDATE customers SET <fields>, updated_at = CURRENT_TIMESTAMP WHERE id = ?
UpdateStatement(fields, customerId) ==
  [sql |-> <<"UPDATE customers SET">>
           \o [i \in 1..Len(fields) |-> fields[i].key]
           \o <<"updated_at = CURRENT_TIMESTAMP", "WHERE id = ?">>,
   params |-> [i \in 1..Len(fields) |-> fields[i].value] \o <<customerId>>]

\* the row after the SET list is applied to it
UpdatedRow(row, fields) ==
  [col \in DOMAIN row |->
     IF \E i \in 1..Len(fields) : fields[i].key = col
       THEN Get(fields, col) ELSE row[col]]

\* the store's answer to the UPDATE: it names every column it assigns
RunUpdate(store, fields, customerId) ==
  LET assigned == Keys(fields) \cup {"updated_at"}
  IN IF ~(assigned \subseteq CustomersColumns)
       THEN [error |-> "SQLITE_ERROR: no such column", db |-> store]
       ELSE [error |-> "",
             db |-> [store EXCEPT !.customers =
                       {IF c.id = customerId THEN UpdatedRow(c, fields) ELSE c :
                          c \in store.customers}]]

TypeErrorUndefinedObject == "TypeError: Cannot convert undefined or null to object"

updateCustomerInfo(store, customerId, updateData) ==
  IF ~updateData.present
    THEN Outcome(TypeErrorUndefinedObject, {}, NoMetrics, <<>>, store)
  ELSE LET fields == updateFields(updateData.val)
           stmt == UpdateStatement(fields, customerId)
           ran == RunUpdate(store, fields, customerId)
           details == getCustomerDetails(ran.db, customerId)
       IN IF Len(fields) = 0
            THEN Outcome("No valid fields to update", {}, NoMetrics, <<>>, store)
          ELSE IF ran.error # ""
            THEN Outcome(ran.error, {}, NoMetrics, <<stmt>>, store)
          ELSE Outcome(details.error, details.fields, NoMetrics,
                       <<stmt>> \o details.issued, ran.db)

----------------------------------------------------------------------------
(* ReportGenerator *)

\* awaited calls in sequence: the first one that throws ends the caller
RECURSIVE ChainOutcomes(_)
ChainOutcomes(outs) ==
  IF outs = <<>> THEN [error |-> "", issued |-> <<>>]
  ELSE IF Head(outs).error # ""
    THEN [error |-> Head(outs).error, issued |-> Head(outs).issued]
  ELSE LET rest == ChainOutcomes(Tail(outs))
       IN [error |-> rest.error, issued |-> Head(outs).issued \o rest.issued]

\* the fixed recommendation lists of the three handlers the report draws on
CustomerAnalyticsRecommendations ==
  <<"Focus on platinum tier customers for retention programs",
    "Develop industry-specific marketing campaigns",
    "Implement customer segmentation strategies">>

SalesPerformanceRecommendations ==
  <<"Implement sales training for underperforming regions",
    "Focus on increasing average order value",
    "Develop targeted campaigns for high-value customers">>

InventoryInsightsRecommendations ==
  <<"Reorder low stock items immediately",
    "Optimize warehouse distribution",
    "Implement automated reorder alerts">>

\* [...new Set(list)]: each string once, at the place of its first occurrence
RECURSIVE Unique(_)
Unique(list) ==
  IF list = <<>> THEN <<>>
  ELSE LET front == Unique(SubSeq(list, 1, Len(list) - 1))
           last == list[Len(list)]
       IN IF \E i \in 1..Len(front) : front[i] = last THEN front ELSE Append(front, last)

\* list.slice(from, to) with zero-based, end-exclusive indices
Slice(list, from, to) ==
  SubSeq(list, from + 1, IF to < Len(list) THEN to ELSE Len(list))

\* the entries pushed to one tier of the plan
Tier(recs, timeline, resources, priority) ==
  [i \in 1..Len(recs) |->
     [recommendation |-> recs[i], timeline |-> timeline,
      resources |-> resources, priority |-> priority]]

\* a plan whose immediate tier lists the priority label of each entry in place
\* of its recommendation
generateImplementationPlanByLabel(recommendations) ==
  [immediate |-> Tier([i \in 1..Len(Slice(recommendations, 0, 2)) |-> "High"],
                      "1-2 weeks", "Internal team", "High"),
   shortTerm |-> Tier(Slice(recommendations, 2, 4), "1-3 months",
                      "Internal team + external consultants", "Medium"),
   longTerm |-> Tier(Slice(recommendations, 4, Len(recommendations)), "3-6 months",
                     "Strategic planning team", "Low")]

\* a plan whose immediate tier takes the first three entries
generateImplementationPlanFirstThree(recommendations) ==
  [immediate |-> Tier(Slice(recommendations, 0, 3), "1-2 weeks", "Internal team", "High"),
   shortTerm |-> Tier(Slice(recommendations, 3, 4), "1-3 months",
                      "Internal team + external consultants", "Medium"),
   longTerm |-> Tier(Slice(recommendations, 4, Len(recommendations)), "3-6 months",
                     "Strategic planning team", "Low")]

\* forEach over the list: index < 2 immediate, index < 4 shortTerm, else longTerm
generateImplementationPlan(recommendations) ==
  [immediate |-> Tier(Slice(recommendations, 0, 2), "1-2 weeks", "Internal team", "High"),
   shortTerm |-> Tier(Slice(recommendations, 2, 4), "1-3 months",
                      "Internal team + external consultants", "Medium"),
   longTerm |-> Tier(Slice(recommendations, 4, Len(recommendations)), "3-6 months",
                     "Strategic planning team", "Low")]

\* the value generateRecommendations returns
RecommendationsBlock ==
  LET uniqueRecommendations ==
        Unique(CustomerAnalyticsRecommendations \o SalesPerformanceRecommendations
               \o InventoryInsightsRecommendations)
  IN [priority |-> Slice(uniqueRecommendations, 0, 5),
      all |-> uniqueRecommendations,
      implementation |-> generateImplementationPlan(uniqueRecommendations)]

generateExecutiveSummary(store, filters, dateRange) ==
  LET run == RunSteps(<<
        Step("generateExecutiveSummary.keyMetrics", FromCO, {},
             ReportBuildWhereClause(filters, dateRange)),
        Step("generateExecutiveSummary.topProducts", FromOIPOC, {},
             ReportBuildWhereClause(filters, dateRange)),
        Step("generateExecutiveSummary.topCustomers", FromCO, {},
             ReportBuildWhereClause(filters, dateRange))>>)
  IN ReadOutcome(run, {"keyMetrics", "topProducts", "topCustomers", "summary"},
                 NoMetrics, store)

generateRecommendations(store, filters, dateRange) ==
  LET run == ChainOutcomes(<<getCustomerAnalytics(store, filters, dateRange),
                             getSalesPerformance(store, filters, dateRange),
                             getInventoryInsights(store, filters)>>)
  IN ReadOutcome(run, {"priority", "all", "implementation"}, NoMetrics, store)

\* the top-level fields of what formatAsCSV / formatAsPDF / no formatting return;
\* CSV text and a bare array of rows have none
FormattedFields(format, fields) ==
  CASE format = "csv" -> {}
    [] format = "pdf" -> {"format", "content", "metadata"}
    [] OTHER -> fields

generateComprehensiveReport(store, filters, dateRange, format) ==
  LET run == ChainOutcomes(<<generateExecutiveSummary(store, filters, dateRange),
                             getCustomerAnalytics(store, filters, dateRange),
                             getSalesPerformance(store, filters, dateRange),
                             getInventoryInsights(store, filters),
                             getFinancialSummary(store, filters, dateRange),
                             generateRecommendations(store, filters, dateRange)>>)
  IN ReadOutcome(run,
                 FormattedFields(format,
                   {"metadata", "executiveSummary", "customerAnalytics",
                    "salesPerformance", "inventoryInsights", "financialSummary",
                    "recommendations"}),
                 NoMetrics, store)

\* the parameter bags of the model carry no filters or dateRange of their own,
\* so exportData reads its defaults: filters = {} and dateRange undefined
exportData(store, parameters, format) ==
  LET dataType == parameters.dataType
      w == ReportBuildWhereClause(<<>>, Absent)
      run ==
        CASE dataType = "customers" ->
               RunSteps(<<Step("exportCustomerData", FromCO, {}, w)>>)
          [] dataType = "orders" ->
               RunSteps(<<Step("exportOrderData", FromOCSR, {}, w)>>)
          [] dataType = "products" ->
               RunSteps(<<Step("exportProductData", FromPI, {}, Clause(<<>>))>>)
          [] dataType = "inventory" ->
               RunSteps(<<Step("exportInventoryData", FromIP, {}, Clause(<<>>))>>)
          [] OTHER -> [error |-> "Unsupported data type", issued |-> <<>>]
  IN ReadOutcome(run, FormattedFields(format, {}), NoMetrics, store)

----------------------------------------------------------------------------
(* The request schema and the router *)

\* the enum with one more name, for which routeRequest has no case
OperationsWithUnroutedName ==
  <<"get_customer_analytics", "get_sales_performance", "get_inventory_insights",
    "generate_business_report", "predict_sales_trends", "analyze_customer_behavior",
    "get_revenue_forecast", "identify_top_products", "analyze_market_segments",
    "get_operational_metrics", "search_customers", "get_customer_details",
    "update_customer_info", "check_inventory_levels", "get_product_performance",
    "create_sales_opportunity", "get_order_analytics", "analyze_geographic_sales",
    "get_financial_summary", "export_data", "delete_everything">>

Operations ==
  <<"get_customer_analytics", "get_sales_performance", "get_inventory_insights",
    "generate_business_report", "predict_sales_trends", "analyze_customer_behavior",
    "get_revenue_forecast", "identify_top_products", "analyze_market_segments",
    "get_operational_metrics", "search_customers", "get_customer_details",
    "update_customer_info", "check_inventory_levels", "get_product_performance",
    "create_sales_opportunity", "get_order_analytics", "analyze_geographic_sales",
    "get_financial_summary", "export_data">>

OperationSet == {Operations[i] : i \in 1..Len(Operations)}

Formats == {"json", "csv", "pdf"}

\* a schema that accepts every argument object
BusinessIntelligenceToolSchemaAcceptingAll(args) == Ok

\* BusinessIntelligenceToolSchema.parse: the enum checks; keys the schema does
\* not name (authToken) are dropped from the parsed value
BusinessIntelligenceToolSchema(args) ==
  IF args.operation \notin OperationSet THEN Throw("ZodError: invalid operation")
  ELSE IF args.format # Undefined /\ args.format \notin Formats
    THEN Throw("ZodError: invalid format")
  ELSE Ok

\* the defaults of routeRequest's destructuring
FiltersOf(args) == IF args.filters.present THEN args.filters.val ELSE <<>>
FormatOf(args) == IF args.format = Undefined THEN "json" ELSE args.format

Routed(handler, outcome) == [handler |-> handler, outcome |-> outcome]

routeRequest(store, args) ==
  LET operation == args.operation
      parameters == args.parameters
      filters == FiltersOf(args)
      dateRange == args.dateRange
      format == FormatOf(args)
  IN CASE operation = "get_customer_analytics" ->
            Routed("analyticsEngine.getCustomerAnalytics",
                   getCustomerAnalytics(store, filters, dateRange))
       [] operation = "get_sales_performance" ->
            Routed("analyticsEngine.getSalesPerformance",
                   getSalesPerformance(store, filters, dateRange))
       [] operation = "get_inventory_insights" ->
            Routed("analyticsEngine.getInventoryInsights",
                   getInventoryInsights(store, filters))
       [] operation = "generate_business_report" ->
            Routed("reportGenerator.generateComprehensiveReport",
                   generateComprehensiveReport(store, filters, dateRange, format))
       [] operation = "predict_sales_trends" ->
            Routed("analyticsEngine.predictSalesTrends",
                   predictSalesTrends(store, filters, dateRange))
       [] operation = "analyze_customer_behavior" ->
            Routed("analyticsEngine.analyzeCustomerBehavior",
                   analyzeCustomerBehavior(store, filters, dateRange))
       [] operation = "get_revenue_forecast" ->
            Routed("analyticsEngine.getRevenueForecast",
                   getRevenueForecast(store, filters, dateRange))
       [] operation = "identify_top_products" ->
            Routed("analyticsEngine.identifyTopProducts",
                   identifyTopProducts(store, filters, dateRange))
       [] operation = "analyze_market_segments" ->
            Routed("analyticsEngine.analyzeMarketSegments",
                   analyzeMarketSegments(store, filters, dateRange))
       [] operation = "get_operational_metrics" ->
            Routed("analyticsEngine.getOperationalMetrics",
                   getOperationalMetrics(store, filters, dateRange))
       [] operation = "search_customers" ->
            Routed("customerService.searchCustomers",
                   searchCustomers(store, parameters))
       [] operation = "get_customer_details" ->
            Routed("customerService.getCustomerDetails",
                   getCustomerDetails(store, parameters.customerId))
       [] operation = "update_customer_info" ->
            Routed("customerService.updateCustomerInfo",
                   updateCustomerInfo(store, parameters.customerId, parameters.data))
       [] operation = "check_inventory_levels" ->
            Routed("inventoryService.checkInventoryLevels",
                   checkInventoryLevels(store, parameters))
       [] operation = "get_product_performance" ->
            Routed("inventoryService.getProductPerformance",
                   getProductPerformance(store, filters, dateRange))
       [] operation = "create_sales_opportunity" ->
            Routed("salesService.createSalesOpportunity",
                   createSalesOpportunity(store, parameters))
       [] operation = "get_order_analytics" ->
            Routed("salesService.getOrderAnalytics",
                   getOrderAnalytics(store, filters, dateRange))
       [] operation = "analyze_geographic_sales" ->
            Routed("analyticsEngine.analyzeGeographicSales",
                   analyzeGeographicSales(store, filters, dateRange))
       [] operation = "get_financial_summary" ->
            Routed("analyticsEngine.getFinancialSummary",
                   getFinancialSummary(store, filters, dateRange))
       [] operation = "export_data" ->
            Routed("reportGenerator.exportData",
                   exportData(store, parameters, format))
       [] OTHER ->
            Routed("none", Outcome("Unknown operation", {}, NoMetrics, <<>>, store))

----------------------------------------------------------------------------
(* Response envelopes of the call-tool handler *)

\* JSON.stringify(result, null, 2): the top-level keys of the result and its
\* ratio metrics as JSON writes them
JsonStringify(res) ==
  [keys |-> res.fields,
   numbers |-> [m \in DOMAIN res.metrics |-> JsonNumber(res.metrics[m])]]

SuccessEnvelope(res) ==
  [content |-> <<[type |-> "text", text |-> JsonStringify(res)]>>]

\* a catch block that forgets the isError flag
ErrorEnvelopeUnflagged(message) ==
  [content |-> <<[type |-> "text", text |-> <<"Error: ", message>>]>>]

\* the catch block: `Error: ${error.message}` with isError set
ErrorEnvelope(message) ==
  [content |-> <<[type |-> "text", text |-> <<"Error: ", message>>]>>,
   isError |-> TRUE]

\* COUNT(*) and AVG(total_spent) over customers c JOIN orders o, as
\* getCustomerAnalytics reads them; the mean is kept as the fraction sum/count,
\* and `avg_clv || 0` gives 0 for the NULL of an empty join
CustomerAnalyticsMetrics(store, filters, dateRange) ==
  LET rows == SetToSeq(OrderRows(store, AnalyticsBuildWhereClause(filters, dateRange).conds))
      spent == SumSeq([i \in 1..Len(rows) |-> rows[i].c.total_spent])
  IN [totalCustomers |-> Len(rows),
      avgCLV |-> IF Len(rows) = 0 THEN [sum |-> 0, count |-> 1]
                 ELSE [sum |-> spent, count |-> Len(rows)]]

\* the recommendations of getFinancialSummary: the first depends on the margin
\* (a comparison with NaN is false)
FinancialSummaryRecommendations(store, filters, dateRange) ==
  LET w == AnalyticsBuildWhereClause(filters, dateRange)
      overallMargin == JsPercent(SumProfit(ItemRows(store, w.conds)),
                                 SumTotalAmount(OrderRows(store, w.conds)))
  IN <<IF overallMargin.k = "num" /\ overallMargin.v < 2000
         THEN "Focus on improving profit margins"
         ELSE "Maintain healthy profit margins",
       "Increase sales of high-margin products",
       "Review pricing strategy for low-margin items">>

\* the recommendations of the four analytics sections of the report
ReportSections(store, filters, dateRange) ==
  [customerAnalytics |-> CustomerAnalyticsRecommendations,
   salesPerformance |-> SalesPerformanceRecommendations,
   inventoryInsights |-> InventoryInsightsRecommendations,
   financialSummary |-> FinancialSummaryRecommendations(store, filters, dateRange)]

\* the parts of a handler's return value the properties below read, by
\* operation; an operation none of them reads has no entry
ResultData(store, args) ==
  CASE args.operation = "generate_business_report" /\ FormatOf(args) # "csv" ->
         [recommendations |-> RecommendationsBlock,
          sections |-> ReportSections(store, FiltersOf(args), args.dateRange)]
    [] args.operation = "get_customer_analytics" ->
         [metrics |-> CustomerAnalyticsMetrics(store, FiltersOf(args), args.dateRange)]
    [] OTHER -> [none |-> TRUE]

NoResponse == [pending |-> TRUE]
NoResult == [fields |-> {}, metrics |-> NoMetrics, data |-> [none |-> TRUE]]

----------------------------------------------------------------------------
(* Requests the server is sent *)

NoParameters ==
  [customerId |-> Undefined, productId |-> Undefined, quantity |-> Undefined,
   estimatedValue |-> Undefined, data |-> Absent, dataType |-> Undefined,
   category |-> Undefined, query |-> Undefined]

Args(token, operation, parameters, filters, dateRange, format) ==
  [authToken |-> token, operation |-> operation, parameters |-> parameters,
   filters |-> filters, dateRange |-> dateRange, format |-> format]

\* a CallTool request as the SDK hands it over: params is always there, its
\* arguments and _meta are optional
Request(name, metaToken, arguments) ==
  [hasParams |-> TRUE,
   params |-> [name |-> name, meta |-> [authToken |-> metaToken],
               arguments |-> arguments]]

SeqsUpTo(S, n) == UNION {[1..k -> S] : k \in 0..n}

ElemInputs == {StringElem("gold"), StringElem("delivered"), NumberElem}

ValueInputs ==
  {ArrayValue(items) : items \in SeqsUpTo(ElemInputs, MaxValues)}
  \cup {NumberValue, StringValue("gold"), NullValue, ObjectValue}

FilterKeyInputs == validFilterKeys \cup {"paymentMethod"}

FilterInputs ==
  {Absent, Present(<<>>)}
  \cup {Present(<<Entry(k, v)>>) : k \in FilterKeyInputs, v \in ValueInputs}
  \cup {Present(<<Entry("customerTier", ArrayValue(<<StringElem("gold")>>)),
                  Entry("paymentMethod", ArrayValue(<<StringElem("gold")>>))>>),
        Present(<<Entry("customerTier", ArrayValue(<<StringElem("gold")>>)),
                  Entry("status", ArrayValue(<<StringElem("delivered")>>))>>)}

DateRange(start, end) == Present([start |-> start, end |-> end])

DateInputs ==
  {Absent,
   DateRange(Undefined, Undefined),
   DateRange("2024-01-01", Undefined),
   DateRange("2023-12-01", "2024-03-01"),
   DateRange("2024-01-08", "2024-03-01"),
   DateRange("2024-03-01", "2024-01-01"),
   DateRange("not-a-date", Undefined),
   DateRange("2024-01-01", "not-a-date")}

\* the operations whose handler is passed filters
FilterOperations ==
  {"get_customer_analytics", "get_sales_performance", "get_inventory_insights",
   "generate_business_report", "predict_sales_trends", "analyze_customer_behavior",
   "get_revenue_forecast", "identify_top_products", "analyze_market_segments",
   "get_operational_metrics", "get_product_performance", "get_order_analytics",
   "analyze_geographic_sales", "get_financial_summary"}

UpdateEntryInputs ==
  {Entry("name", "New Name"), Entry("customer_tier", "gold"),
   Entry("id", "CUST999"), Entry("total_spent", "0")}

\* update maps: an object has each key once
UpdateDataInputs ==
  {Absent}
  \cup {Present(es) : es \in {s \in SeqsUpTo(UpdateEntryInputs, MaxUpdateKeys) :
                               \A i, j \in 1..Len(s) : i # j => s[i].key # s[j].key}}

ParameterInputs(operation) ==
  CASE operation = "create_sales_opportunity" ->
         {[NoParameters EXCEPT !.customerId = c, !.productId = p,
                               !.quantity = q, !.estimatedValue = e] :
            c \in {Undefined, "CUST001", "NOPE"}, p \in {"PROD001", "NOPE"},
            q \in {Undefined, "0", "5"}, e \in {"0", "1000"}}
    [] operation = "update_customer_info" ->
         {[NoParameters EXCEPT !.customerId = c, !.data = d] :
            c \in {"CUST001", "NOPE"}, d \in UpdateDataInputs}
    [] operation = "get_customer_details" ->
         {[NoParameters EXCEPT !.customerId = c] : c \in {Undefined, "CUST001", "NOPE"}}
    [] operation = "search_customers" ->
         {[NoParameters EXCEPT !.query = q] : q \in {Undefined, "Tech"}}
    [] operation = "check_inventory_levels" ->
         {[NoParameters EXCEPT !.category = c] : c \in {Undefined, "Software"}}
    [] operation = "export_data" ->
         {[NoParameters EXCEPT !.dataType = t] :
            t \in {Undefined, "customers", "orders", "products", "inventory", "invoices"}}
    [] OTHER -> {NoParameters}

FormatInputs(operation) ==
  IF operation \in {"generate_business_report", "export_data"}
    THEN {Undefined, "json", "csv", "pdf"} ELSE {Undefined}

\* the filter maps that are also sent together with every date range
DatedFilterInputs ==
  {Absent, Present(<<>>),
   Present(<<Entry("customerTier", ArrayValue(<<StringElem("gold")>>))>>),
   Present(<<Entry("paymentMethod", ArrayValue(<<StringElem("gold")>>))>>),
   Present(<<Entry("region", NumberValue)>>)}

ArgInputs ==
  {Args(Undefined, op, NoParameters, f, Absent, Undefined) :
     op \in FilterOperations, f \in FilterInputs}
  \cup {Args(Undefined, op, NoParameters, f, d, Undefined) :
          op \in FilterOperations, f \in DatedFilterInputs, d \in DateInputs}
  \cup UNION {{Args(Undefined, op, p, Absent, Absent, fmt) :
                 p \in ParameterInputs(op), fmt \in FormatInputs(op)} :
              op \in OperationSet}
  \cup {Args(Undefined, "delete_everything", NoParameters, Absent, Absent, Undefined),
        Args(Undefined, Undefined, NoParameters, Absent, Absent, Undefined),
        Args(Undefined, "get_customer_analytics", NoParameters, Absent, Absent, "xml")}

TokenInputs == {Undefined, "", "token-valid", "token-expired"}

RequestInputs ==
  {Request("business_intelligence", Undefined, Present(a)) : a \in ArgInputs}
  \cup {Request("business_intelligence", mt,
                Present(Args(at, op, NoParameters, Absent, Absent, Undefined))) :
          mt \in TokenInputs, at \in TokenInputs,
          op \in {"get_customer_analytics", "get_customer_details", "delete_everything"}}
  \cup {Request(n, mt, a) :
          n \in {"", "other_tool", "business_intelligence"}, mt \in TokenInputs,
          a \in {Absent,
                 Present(Args(Undefined, "get_inventory_insights", NoParameters,
                              Absent, Absent, Undefined))}}

----------------------------------------------------------------------------
(* The call-tool handler, one action per await of its try block *)

ArgsOf(req) == req.params.arguments.val

\* the module-level service variables of index.ts
Services ==
  {"dbManager", "analyticsEngine", "securityManager", "reportGenerator",
   "customerService", "inventoryService", "salesService"}

\* the process once run() has returned
Running == [pc |-> "running", instances |-> [s \in Services |-> 1], connected |-> TRUE]

Init ==
  /\ server = Running
  /\ db \in Stores
  /\ phase = "Idle"
  /\ request = Request("", Undefined, Absent)
  /\ thrown = ""
  /\ response = NoResponse
  /\ invoked = "none"
  /\ issued = <<>>
  /\ result = NoResult
  /\ dbBefore = db
  /\ unit = [fn |-> "none"]

\* a CallTool request arrives
Receive(req) ==
  /\ server.connected
  /\ phase = "Idle"
  /\ phase' = "Received"
  /\ request' = req
  /\ thrown' = ""
  /\ response' = NoResponse
  /\ invoked' = "none"
  /\ issued' = <<>>
  /\ result' = NoResult
  /\ dbBefore' = db
  /\ UNCHANGED <<db, unit, server>>

\* await securityManager.validateRequest(request)
ValidateRequest ==
  /\ phase = "Received"
  /\ LET v == validateRequest(request)
     IN IF v.ok
          THEN phase' = "Validated" /\ thrown' = thrown
          ELSE phase' = "Caught" /\ thrown' = v.error
  /\ UNCHANGED <<db, request, response, invoked, issued, result, dbBefore, unit, server>>

\* BusinessIntelligenceToolSchema.parse(args)
ParseArguments ==
  /\ phase = "Validated"
  /\ LET v == BusinessIntelligenceToolSchema(ArgsOf(request))
     IN IF v.ok
          THEN phase' = "SchemaValidated" /\ thrown' = thrown
          ELSE phase' = "Caught" /\ thrown' = v.error
  /\ UNCHANGED <<db, request, response, invoked, issued, result, dbBefore, unit, server>>

\* await this.routeRequest(name, validatedArgs)
RouteRequest ==
  /\ phase = "SchemaValidated"
  /\ LET r == routeRequest(db, ArgsOf(request))
     IN /\ invoked' = r.handler
        /\ issued' = r.outcome.issued
        /\ db' = r.outcome.db
        /\ IF r.outcome.error = ""
             THEN /\ phase' = "Routed"
                  /\ result' = [fields |-> r.outcome.fields,
                                metrics |-> r.outcome.metrics,
                                data |-> ResultData(db, ArgsOf(request))]
                  /\ thrown' = thrown
             ELSE /\ phase' = "Caught"
                  /\ result' = result
                  /\ thrown' = r.outcome.error
  /\ UNCHANGED <<request, response, dbBefore, unit, server>>

\* the return statement of the try block
ReturnResult ==
  /\ phase = "Routed"
  /\ response' = SuccessEnvelope(result)
  /\ phase' = "Completed"
  /\ UNCHANGED <<db, request, thrown, invoked, issued, result, dbBefore, unit, server>>

\* the catch block
CatchError ==
  /\ phase = "Caught"
  /\ response' = ErrorEnvelope(thrown)
  /\ phase' = "Failed"
  /\ UNCHANGED <<db, request, thrown, invoked, issued, result, dbBefore, unit, server>>

\* the response is handed to the transport and the server waits for the next call
AwaitNext ==
  /\ phase \in {"Completed", "Failed"}
  /\ phase' = "Idle"
  /\ request' = Request("", Undefined, Absent)
  /\ thrown' = ""
  /\ response' = NoResponse
  /\ invoked' = "none"
  /\ issued' = <<>>
  /\ result' = NoResult
  /\ dbBefore' = db
  /\ UNCHANGED <<db, unit, server>>

Next ==
  \/ \E req \in RequestInputs : Receive(req)
  \/ ValidateRequest
  \/ ParseArguments
  \/ RouteRequest
  \/ ReturnResult
  \/ CatchError
  \/ AwaitNext

Spec == Init /\ [][Next]_vars

----------------------------------------------------------------------------
(* Start of the process: new BusinessIntelligenceMCPServer() and run() *)

\* the constructor has registered the handlers; nothing else exists yet
Constructed == [pc |-> "constructed", instances |-> [s \in Services |-> 0], connected |-> FALSE]

StartInit ==
  /\ server = Constructed
  /\ db \in Stores
  /\ phase = "Idle"
  /\ request = Request("", Undefined, Absent)
  /\ thrown = ""
  /\ response = NoResponse
  /\ invoked = "none"
  /\ issued = <<>>
  /\ result = NoResult
  /\ dbBefore = db
  /\ unit = [fn |-> "none"]

\* dbManager = new DatabaseManager(); await dbManager.initialize()
InitializeDatabase ==
  /\ server.pc = "constructed"
  /\ server' = [server EXCEPT !.pc = "initialized",
                              !.instances["dbManager"] = @ + 1]
  /\ UNCHANGED <<db, phase, request, thrown, response, invoked, issued, result, dbBefore, unit>>

\* await dbManager.seedSampleData(): one DatabaseManager inserts the sample rows
\* into an empty customers table, the other inserts nothing
SeedSampleData ==
  /\ server.pc = "initialized"
  /\ server' = [server EXCEPT !.pc = "seeded"]
  /\ db' \in (IF db.customers = {} THEN {db, SeededStore} ELSE {db})
  /\ dbBefore' = db'
  /\ UNCHANGED <<phase, request, thrown, response, invoked, issued, result, unit>>

\* the six constructor calls of run(), which no await separates
ConstructServices ==
  /\ server.pc = "seeded"
  /\ server' = [server EXCEPT
       !.pc = "built",
       !.instances = [s \in Services |->
                        IF s = "dbManager" THEN @[s] ELSE @[s] + 1]]
  /\ UNCHANGED <<db, phase, request, thrown, response, invoked, issued, result, dbBefore, unit>>

\* a transport connected by the constructor, before run()
ConnectInConstructor ==
  /\ ~server.connected
  /\ server' = [server EXCEPT !.connected = TRUE]
  /\ UNCHANGED <<db, phase, request, thrown, response, invoked, issued, result, dbBefore, unit>>

\* await this.server.connect(transport)
Connect ==
  /\ server.pc = "built"
  /\ server' = [server EXCEPT !.pc = "running", !.connected = TRUE]
  /\ UNCHANGED <<db, phase, request, thrown, response, invoked, issued, result, dbBefore, unit>>

StartNext ==
  \/ InitializeDatabase
  \/ SeedSampleData
  \/ ConstructServices
  \/ Connect
  \/ Next

StartSpec == StartInit /\ [][StartNext]_vars

----------------------------------------------------------------------------
(* The SecurityManager methods called on their own *)

CallValidateFilters(filters) ==
  /\ unit' = [fn |-> "validateFilters", arg |-> filters, out |-> validateFilters(filters)]
  /\ UNCHANGED <<db, phase, request, thrown, response, invoked, issued, result, dbBefore, server>>

CallValidateDateRange(dateRange) ==
  /\ unit' = [fn |-> "validateDateRange", arg |-> dateRange,
              out |-> validateDateRange(dateRange)]
  /\ UNCHANGED <<db, phase, request, thrown, response, invoked, issued, result, dbBefore, server>>

CallAuthenticateRequest(req) ==
  /\ unit' = [fn |-> "authenticateRequest", arg |-> req, out |-> authenticateRequest(req)]
  /\ UNCHANGED <<db, phase, request, thrown, response, invoked, issued, result, dbBefore, server>>

CallValidateRequest(req) ==
  /\ unit' = [fn |-> "validateRequest", arg |-> req, out |-> validateRequest(req)]
  /\ UNCHANGED <<db, phase, request, thrown, response, invoked, issued, result, dbBefore, server>>

\* requests as a caller of the class may build them, params possibly missing
UnitRequestInputs ==
  {[hasParams |-> FALSE, params |-> Request("", Undefined, Absent).params]}
  \cup {Request(n, mt, Present(Args(at, "get_customer_analytics", NoParameters,
                                    Absent, Absent, Undefined))) :
          n \in {"", "other_tool", "business_intelligence"},
          mt \in TokenInputs, at \in TokenInputs}
  \cup {Request(n, mt, Absent) :
          n \in {"", "business_intelligence"}, mt \in TokenInputs}

SecNext ==
  \/ \E f \in FilterInputs : CallValidateFilters(f)
  \/ \E d \in DateInputs : CallValidateDateRange(d)
  \/ \E req \in UnitRequestInputs : CallAuthenticateRequest(req)
  \/ \E req \in UnitRequestInputs : CallValidateRequest(req)

SecSpec == Init /\ [][SecNext]_vars

----------------------------------------------------------------------------
(* The derived values computed inside queries and handlers, on their own *)

\* CASE WHEN i.quantity <= i.reorder_level ... END as stock_status, as written
\* in getInventoryInsights
InsightsStockStatusStrict(quantity, reorder_level) ==
  IF quantity < reorder_level THEN "Low Stock"
  ELSE IF quantity <= reorder_level * 2 THEN "Medium Stock"
  ELSE "High Stock"

InsightsStockStatus(quantity, reorder_level) ==
  IF quantity <= reorder_level THEN "Low Stock"
  ELSE IF quantity <= reorder_level * 2 THEN "Medium Stock"
  ELSE "High Stock"

\* the same CASE as written in checkInventoryLevels
CheckLevelsStockStatus(quantity, reorder_level) ==
  IF quantity <= reorder_level THEN "Low Stock"
  ELSE IF quantity <= reorder_level * 2 THEN "Medium Stock"
  ELSE "High Stock"

\* the same CASE as written in exportInventoryData
ExportStockStatus(quantity, reorder_level) ==
  IF quantity <= reorder_level THEN "Low Stock"
  ELSE IF quantity <= reorder_level * 2 THEN "Medium Stock"
  ELSE "High Stock"

\* SQL NULL, as MAX(o.order_date) of a customer without orders gives
SqlNull == [k |-> "null", v |-> 0]

\* the CASE with its thresholds tried from the smallest up
ChurnRiskSmallestFirst(days) ==
  IF days.k = "null" THEN "Active"
  ELSE IF days.v > 30 THEN "Low Risk"
  ELSE IF days.v > 60 THEN "Medium Risk"
  ELSE IF days.v > 90 THEN "High Risk"
  ELSE "Active"

\* the CASE with a missing last order date counted as the longest absence
ChurnRiskNullAsHigh(days) ==
  IF days.k = "null" THEN "High Risk"
  ELSE IF days.v > 90 THEN "High Risk"
  ELSE IF days.v > 60 THEN "Medium Risk"
  ELSE IF days.v > 30 THEN "Low Risk"
  ELSE "Active"

\* CASE WHEN days > 90 ... END as churn_risk of the churnRisk query; a
\* comparison with NULL is not true, so NULL falls to ELSE
ChurnRisk(days) ==
  IF days.k = "null" THEN "Active"
  ELSE IF days.v > 90 THEN "High Risk"
  ELSE IF days.v > 60 THEN "Medium Risk"
  ELSE IF days.v > 30 THEN "Low Risk"
  ELSE "Active"

\* the same CASE in the riskDistribution query
DistributionChurnRisk(days) ==
  IF days.k = "null" THEN "Active"
  ELSE IF days.v > 90 THEN "High Risk"
  ELSE IF days.v > 60 THEN "Medium Risk"
  ELSE IF days.v > 30 THEN "Low Risk"
  ELSE "Active"

DaysInputs == {Num(d) : d \in 0..MaxDays} \cup {SqlNull}

ComputeChurnRisk(days) ==
  /\ unit' = [fn |-> "churn_risk", arg |-> days,
              out |-> [churnRisk |-> ChurnRisk(days),
                       riskDistribution |-> DistributionChurnRisk(days)]]
  /\ UNCHANGED <<db, phase, request, thrown, response, invoked, issued, result, dbBefore, server>>

\* getCustomerChurnRisk over customers given by the days since their last order
\* (NULL for a customer the LEFT JOIN finds no order for): the ids the HAVING
\* clause keeps, and the customer_count of each churn_risk group
getCustomerChurnRisk(days) ==
  [churnRisk |-> {c \in DOMAIN days : ChurnRisk(days[c]) \in {"High Risk", "Medium Risk"}},
   riskDistribution |->
     [risk \in {"High Risk", "Medium Risk", "Low Risk", "Active"} |->
        Cardinality({c \in DOMAIN days : DistributionChurnRisk(days[c]) = risk})]]

\* days since the last order around each threshold, and no order at all
DaysSamples == {SqlNull, Num(0), Num(30), Num(31), Num(61), Num(90), Num(91)}

CallGetCustomerChurnRisk(days) ==
  /\ unit' = [fn |-> "getCustomerChurnRisk", arg |-> days, out |-> getCustomerChurnRisk(days)]
  /\ UNCHANGED <<db, phase, request, thrown, response, invoked, issued, result, dbBefore, server>>

\* Math.max
Max(a, b) == IF a >= b THEN a ELSE b

\* number of forecast points of predictSalesTrends, getRevenueForecast, getSalesForecast
PredictPoints == 3
RevenuePoints == 12
SalesForecastPoints == 6

\* a confidence that rises with the horizon
PredictConfidenceRising(i) == Max(50, 60 + i * 10)

\* Math.max(0.5, 1 - (i * 0.1)), in hundredths
PredictConfidence(i) == Max(50, 100 - i * 10)

\* Math.max(0.3, 1 - (i * 0.05)), in hundredths
RevenueConfidence(i) == Max(30, 100 - i * 5)

\* Math.max(0.3, 1 - (i * 0.1)), in hundredths
SalesForecastConfidence(i) == Max(30, 100 - i * 10)

\* the confidence of the points pushed by the forecast loop of an operation
ConfidenceSeries(operation) ==
  CASE operation = "predict_sales_trends" ->
         [i \in 1..PredictPoints |-> PredictConfidence(i)]
    [] operation = "get_revenue_forecast" ->
         [i \in 1..RevenuePoints |-> RevenueConfidence(i)]
    [] operation = "getSalesForecast" ->
         [i \in 1..SalesForecastPoints |-> SalesForecastConfidence(i)]

ComputeForecastConfidence(operation) ==
  /\ unit' = [fn |-> "confidence", arg |-> operation, out |-> ConfidenceSeries(operation)]
  /\ UNCHANGED <<db, phase, request, thrown, response, invoked, issued, result, dbBefore, server>>

ComputeStockStatus(quantity, reorder_level) ==
  /\ unit' = [fn |-> "stock_status",
              arg |-> [quantity |-> quantity, reorder_level |-> reorder_level],
              out |-> [getInventoryInsights |-> InsightsStockStatus(quantity, reorder_level),
                       checkInventoryLevels |-> CheckLevelsStockStatus(quantity, reorder_level),
                       exportInventoryData |-> ExportStockStatus(quantity, reorder_level)]]
  /\ UNCHANGED <<db, phase, request, thrown, response, invoked, issued, result, dbBefore, server>>

\* the where clause each query-issuing class builds from the same filters and
\* date range
CompileFilters(filters, dateRange) ==
  /\ unit' = [fn |-> "buildWhereClause",
              arg |-> [filters |-> filters, dateRange |-> dateRange],
              out |-> [AnalyticsEngine |-> AnalyticsBuildWhereClause(filters, dateRange),
                       SalesService |-> SalesBuildWhereClause(filters, dateRange),
                       InventoryService |-> InventoryBuildWhereClause(filters, dateRange),
                       ReportGenerator |-> ReportBuildWhereClause(filters, dateRange)]]
  /\ UNCHANGED <<db, phase, request, thrown, response, invoked, issued, result, dbBefore, server>>

\* the plan built from the first n recommendations of the merged list
ComputeImplementationPlan(n) ==
  /\ unit' = [fn |-> "generateImplementationPlan",
              arg |-> SubSeq(RecommendationsBlock.all, 1, n),
              out |-> generateImplementationPlan(SubSeq(RecommendationsBlock.all, 1, n))]
  /\ UNCHANGED <<db, phase, request, thrown, response, invoked, issued, result, dbBefore, server>>

CalcNext ==
  \/ \E q \in 0..MaxQuantity, r \in 0..MaxReorderLevel : ComputeStockStatus(q, r)
  \/ \E days \in DaysInputs : ComputeChurnRisk(days)
  \/ \E operation \in {"predict_sales_trends", "get_revenue_forecast", "getSalesForecast"} :
       ComputeForecastConfidence(operation)
  \/ \E n \in 0..MaxRecommendations : ComputeImplementationPlan(n)
  \/ \E days \in [{"CUST001", "CUST005"} -> DaysSamples] : CallGetCustomerChurnRisk(days)
  \/ \E f \in {g \in FilterInputs : g.present},
          d \in {Absent, DateRange("2023-12-01", "2024-03-01")} :
       CompileFilters(f.val, d)

CalcSpec == Init /\ [][CalcNext]_vars

----------------------------------------------------------------------------
(* Forecasts: the arithmetic of the three trend computations *)

\* a leap year
FirstYear == 2024

RECURSIVE GCD(_, _)
GCD(a, b) == IF b = 0 THEN a ELSE GCD(b, a % b)

Abs(x) == IF x < 0 THEN -x ELSE x

\* a finite JavaScript number kept as a fraction in lowest terms
Ratio(n, d) ==
  LET g == GCD(Abs(n), Abs(d))
      s == IF d < 0 THEN -1 ELSE 1
  IN [k |-> "num", n |-> (s * n) \div g, d |-> (s * d) \div g]

NegInfinity == [k |-> "-Infinity", v |-> 0]

\* -1, 0 or 1; NaN has no sign and is tested before
Sign(x) ==
  CASE x.k = "Infinity" -> 1
    [] x.k = "-Infinity" -> -1
    [] OTHER -> IF x.n > 0 THEN 1 ELSE IF x.n < 0 THEN -1 ELSE 0

Signed(s) == IF s = 0 THEN NaN ELSE IF s > 0 THEN Infinity ELSE NegInfinity

\* a + b
JsAdd(a, b) ==
  IF a.k = "NaN" \/ b.k = "NaN" THEN NaN
  ELSE IF a.k # "num" /\ b.k # "num" THEN (IF a.k = b.k THEN a ELSE NaN)
  ELSE IF a.k # "num" THEN a
  ELSE IF b.k # "num" THEN b
  ELSE Ratio(a.n * b.d + b.n * a.d, a.d * b.d)

\* a - b
JsSub(a, b) ==
  IF b.k = "NaN" THEN NaN
  ELSE IF b.k # "num" THEN JsAdd(a, Signed(-Sign(b)))
  ELSE JsAdd(a, Ratio(-b.n, b.d))

\* a * b
JsMul(a, b) ==
  IF a.k = "NaN" \/ b.k = "NaN" THEN NaN
  ELSE IF a.k = "num" /\ b.k = "num" THEN Ratio(a.n * b.n, a.d * b.d)
  ELSE Signed(Sign(a) * Sign(b))

\* a / b, zero being +0
JsDiv(a, b) ==
  IF a.k = "NaN" \/ b.k = "NaN" THEN NaN
  ELSE IF a.k # "num" /\ b.k # "num" THEN NaN
  ELSE IF a.k # "num" THEN (IF Sign(b) < 0 THEN Signed(-Sign(a)) ELSE a)
  ELSE IF b.k # "num" THEN Ratio(0, 1)
  ELSE IF b.n = 0 THEN Signed(Sign(a))
  ELSE Ratio(a.n * b.d, a.d * b.n)

\* Math.pow(a, i) for a whole i >= 1
RECURSIVE MathPow(_, _)
MathPow(a, i) == IF i = 1 THEN a ELSE JsMul(a, MathPow(a, i - 1))

\* Math.max(0, x): NaN if x is NaN
MathMaxZero(x) ==
  IF x.k = "NaN" THEN NaN ELSE IF Sign(x) < 0 THEN Ratio(0, 1) ELSE x

\* rows.reduce((sum, month) => sum + month.revenue, 0)
SumRevenue(rows) == Ratio(SumSeq(rows), 1)

\* rows.reduce(...) / rows.length
AvgRevenue(rows) == JsDiv(SumRevenue(rows), Ratio(Len(rows), 1))

\* predictSalesTrends over the monthly revenues, latest month first
predictSalesTrendsForecast(historicalData) ==
  LET months == Slice(historicalData, 0, 12)
      recentAvg == AvgRevenue(Slice(months, 0, 6))
      olderAvg == AvgRevenue(Slice(months, 6, 12))
      growthRate == JsMul(JsDiv(JsSub(recentAvg, olderAvg), olderAvg), Ratio(100, 1))
  IN [growthRate |-> growthRate,
      forecast |->
        [i \in 1..PredictPoints |->
           MathMaxZero(JsMul(recentAvg,
                             JsAdd(Ratio(1, 1),
                                   JsMul(JsDiv(growthRate, Ratio(100, 1)), Ratio(i, 1)))))]]

\* getRevenueForecast: SUM(total_amount) is null over no rows, and null * x is 0 * x
getRevenueForecastForecast(historicalData) ==
  LET total_revenue == SumRevenue(historicalData)
      monthlyGrowth == Slice(historicalData, 0, 6)
      growthRate ==
        IF Len(monthlyGrowth) > 1
          THEN JsMul(JsDiv(JsSub(Ratio(monthlyGrowth[1], 1), Ratio(monthlyGrowth[2], 1)),
                           Ratio(monthlyGrowth[2], 1)),
                     Ratio(100, 1))
          ELSE Ratio(0, 1)
  IN [growthRate |-> growthRate,
      forecast |->
        [i \in 1..RevenuePoints |->
           MathMaxZero(JsMul(total_revenue,
                             MathPow(JsAdd(Ratio(1, 1), JsDiv(growthRate, Ratio(100, 1))),
                                     i)))]]

\* getSalesForecast: olderAvg > 0 is false for NaN
getSalesForecastForecast(historicalData) ==
  LET recentAvg == AvgRevenue(Slice(historicalData, 0, 6))
      olderAvg == AvgRevenue(Slice(historicalData, 6, 12))
      growthRate ==
        IF olderAvg.k # "NaN" /\ Sign(olderAvg) > 0
          THEN JsMul(JsDiv(JsSub(recentAvg, olderAvg), olderAvg), Ratio(100, 1))
          ELSE Ratio(0, 1)
  IN [growthRate |-> growthRate,
      forecast |->
        [i \in 1..SalesForecastPoints |->
           MathMaxZero(JsMul(recentAvg,
                             MathPow(JsAdd(Ratio(1, 1), JsDiv(growthRate, Ratio(100, 1))),
                                     i)))]]

\* monthly revenues, latest month first: the latest month, the rest of the
\* recent half and the older half each at one level
RevenueLevels == {0, 1, 3}

Histories ==
  {[i \in 1..n |-> IF i = 1 THEN a ELSE IF i <= 6 THEN b ELSE c] :
     n \in 0..MaxMonths, a \in RevenueLevels, b \in RevenueLevels, c \in RevenueLevels}

ComputeForecasts(historicalData) ==
  /\ unit' = [fn |-> "forecast", arg |-> historicalData,
              out |-> [predict_sales_trends |-> predictSalesTrendsForecast(historicalData),
                       get_revenue_forecast |-> getRevenueForecastForecast(historicalData),
                       getSalesForecast |-> getSalesForecastForecast(historicalData)]]
  /\ UNCHANGED <<db, phase, request, thrown, response, invoked, issued, result, dbBefore, server>>

\* days of a month of the Gregorian calendar
DaysInMonth(year, month) ==
  IF month = 2
    THEN (IF year % 4 = 0 /\ (year % 100 # 0 \/ year % 400 = 0) THEN 29 ELSE 28)
  ELSE IF month \in {4, 6, 9, 11} THEN 30 ELSE 31

\* currentMonth.setMonth(currentMonth.getMonth() + 1): the day of the month is
\* kept, and a day past the end of the new month runs over into the next one
SetNextMonth(date) ==
  LET year == IF date.month = 12 THEN date.year + 1 ELSE date.year
      month == IF date.month = 12 THEN 1 ELSE date.month + 1
  IN IF date.day <= DaysInMonth(year, month)
       THEN [year |-> year, month |-> month, day |-> date.day]
       ELSE [year |-> year, month |-> month + 1,
             day |-> date.day - DaysInMonth(year, month)]

\* the date after i rounds of the forecast loop
RECURSIVE MonthAfter(_, _)
MonthAfter(date, i) == IF i = 0 THEN date ELSE SetNextMonth(MonthAfter(date, i - 1))

\* currentMonth.toISOString().slice(0, 7) of each forecast point: year and month
ForecastMonths(date, points) ==
  [i \in 1..points |-> <<MonthAfter(date, i).year, MonthAfter(date, i).month>>]

\* the dates new Date() may return
Dates ==
  {[year |-> y, month |-> m, day |-> d] :
     y \in FirstYear..(FirstYear + MaxYears - 1), m \in 1..12, d \in {1, 28, 29, 30, 31}}

ComputeForecastMonths(date) ==
  /\ date.day <= DaysInMonth(date.year, date.month)
  /\ unit' = [fn |-> "forecastMonths", arg |-> date,
              out |-> [predict_sales_trends |-> ForecastMonths(date, PredictPoints),
                       get_revenue_forecast |-> ForecastMonths(date, RevenuePoints)]]
  /\ UNCHANGED <<db, phase, request, thrown, response, invoked, issued, result, dbBefore, server>>

ForecastNext ==
  \/ \E historicalData \in Histories : ComputeForecasts(historicalData)
  \/ \E date \in Dates : ComputeForecastMonths(date)

ForecastSpec == Init /\ [][ForecastNext]_vars

----------------------------------------------------------------------------
(* InventoryService.updateInventoryLevels, called on the service itself *)

\* one element of the updates array; a null element cannot be destructured
Update(productId, warehouse, quantity, reorderLevel) ==
  [isNull |-> FALSE, productId |-> productId, warehouse |-> warehouse,
   quantity |-> quantity, reorderLevel |-> reorderLevel]

NullUpdate ==
  [isNull |-> TRUE, productId |-> "", warehouse |-> "", quantity |-> 0, reorderLevel |-> 0]

\* UPDATE inventory SET quantity = ?, reorder_level = ? WHERE product_id = ? AND warehouse = ?
UpdateInventoryRow(store, update) ==
  [store EXCEPT !.inventory =
     {IF r.product_id = update.productId /\ r.warehouse = update.warehouse
        THEN [r EXCEPT !.quantity = update.quantity,
                       !.reorder_level = update.reorderLevel]
        ELSE r : r \in store.inventory}]

\* the loop from its k-th iteration on; the store rejects the failAt-th
\* statement (0: none). What is thrown leaves the loop and drops `results`.
RECURSIVE UpdateLoop(_, _, _, _)
UpdateLoop(store, updates, k, failAt) ==
  IF k > Len(updates)
    THEN [error |-> "", updated |-> Len(updates), db |-> store]
  ELSE IF updates[k].isNull
    THEN [error |-> "TypeError: Cannot destructure property 'productId'",
          updated |-> 0, db |-> store]
  ELSE IF k = failAt
    THEN [error |-> "SQLITE_BUSY: database is locked", updated |-> 0, db |-> store]
  ELSE UpdateLoop(UpdateInventoryRow(store, updates[k]), updates, k + 1, failAt)

\* the loop inside a transaction that a failure rolls back
updateInventoryLevelsInTransaction(store, updates, failAt) ==
  LET ran == UpdateLoop(store, updates, 1, failAt)
  IN IF ran.error # "" THEN [ran EXCEPT !.db = store] ELSE ran

updateInventoryLevels(store, updates, failAt) ==
  UpdateLoop(store, updates, 1, failAt)

UpdateInputs ==
  {NullUpdate,
   Update("PROD001", "West Coast", 1, 1),
   Update("PROD002", "Central", 2, 2),
   Update("NOPE", "Central", 3, 3)}

CallUpdateInventoryLevels(updates, failAt) ==
  /\ unit.fn = "none"
  /\ LET ran == updateInventoryLevels(db, updates, failAt)
     IN /\ db' = ran.db
        /\ unit' = [fn |-> "updateInventoryLevels",
                    arg |-> [updates |-> updates, failAt |-> failAt],
                    out |-> [error |-> ran.error, updated |-> ran.updated]]
  /\ dbBefore' = db
  /\ UNCHANGED <<phase, request, thrown, response, invoked, issued, result, server>>

InventoryNext ==
  \/ \E updates \in SeqsUpTo(UpdateInputs, MaxUpdates) :
       \E failAt \in 0..Len(updates) : CallUpdateInventoryLevels(updates, failAt)

InventorySpec == Init /\ [][InventoryNext]_vars

----------------------------------------------------------------------------
(* Properties *)

\* the call in flight has been answered
Done == phase \in {"Completed", "Failed"}

\* the answered call reached the router with this operation
Answered(operation) ==
  /\ Done
  /\ invoked # "none"
  /\ ArgsOf(request).operation = operation

QueryTexts(stmts) == [i \in 1..Len(stmts) |-> stmts[i].sql]

\* a filter value the contract does not accept: not a string, not an array of strings
NotStringOrStrings(v) ==
  \/ v.kind \in {"number", "object", "null"}
  \/ v.kind = "array" /\ \E i \in 1..Len(v.items) : v.items[i].t # "string"

SameValueShape(v, w) ==
  /\ v.kind = w.kind
  /\ Len(v.items) = Len(w.items)
  /\ \A i \in 1..Len(v.items) : v.items[i].t = w.items[i].t

SameFilterShape(f, g) ==
  /\ f.present = g.present
  /\ Len(f.val) = Len(g.val)
  /\ \A i \in 1..Len(f.val) :
       f.val[i].key = g.val[i].key /\ SameValueShape(f.val[i].value, g.val[i].value)

SameDateShape(d, e) ==
  /\ d.present = e.present
  /\ (StartOf(d) = Undefined) = (StartOf(e) = Undefined)
  /\ (EndOf(d) = Undefined) = (EndOf(e) = Undefined)

\* two argument objects that differ only in filter values and date strings
DiffersOnlyInValues(a, b) ==
  /\ a.operation = b.operation
  /\ a.authToken = b.authToken
  /\ a.format = b.format
  /\ a.parameters = b.parameters
  /\ SameFilterShape(a.filters, b.filters)
  /\ SameDateShape(a.dateRange, b.dateRange)

\* C1: a call without a credential that authenticateRequest accepts is answered
\* with the error envelope and no handler is invoked for it.
C1_UnauthenticatedCallIsRefused ==
  (Done /\ ~authenticateRequest(request).ok)
    => (phase = "Failed" /\ "isError" \in DOMAIN response /\ invoked = "none")

\* C2: every answered call carries one text content item; when an exception was
\* raised in validation, parsing or the handler the response has isError = TRUE
\* and the message, and a successful call has the same shape without isError.
C2_EveryCallAnsweredWithEnvelope ==
  Done =>
    /\ Len(response.content) = 1
    /\ DOMAIN response.content[1] = {"type", "text"}
    /\ response.content[1].type = "text"
    /\ IF thrown # ""
         THEN /\ phase = "Failed"
              /\ DOMAIN response = {"content", "isError"}
              /\ response.isError = TRUE
              /\ response.content[1].text = <<"Error: ", thrown>>
         ELSE /\ phase = "Completed"
              /\ DOMAIN response = {"content"}

\* C2 case: a routed handler threw and the call was answered with the error envelope
C2_HandlerExceptionAnswered ==
  /\ phase = "Failed"
  /\ invoked = "customerService.getCustomerDetails"
  /\ thrown = "Customer not found"
  /\ response.isError = TRUE

\* C3: a call whose filters hold a key outside the allow-list fails with the
\* invalid-filter-key error and issues no query.
C3_UnknownFilterKeyIsRejected ==
  (/\ Done
   /\ validateRequest(request).ok
   /\ ArgsOf(request).filters.present
   /\ ~(Keys(ArgsOf(request).filters.val) \subseteq validFilterKeys))
    => (phase = "Failed" /\ thrown = "Invalid filter key" /\ issued = <<>>)

\* C4: validateFilters fails with the invalid-filter-value-type error on every
\* map (of allowed keys) holding a value that is neither a string nor an array
\* of strings.
C4_NonStringFilterValueIsRejected ==
  (/\ unit.fn = "validateFilters"
   /\ unit.arg.present
   /\ Keys(unit.arg.val) \subseteq validFilterKeys
   /\ \E i \in 1..Len(unit.arg.val) : NotStringOrStrings(unit.arg.val[i].value))
    => (~unit.out.ok /\ unit.out.error = "Invalid filter value type")

\* C5: a call whose dateRange has start later than end fails with the
\* invalid-date-range error before any query is issued, and a start or end that
\* is not a date fails with an invalid-date-format error.
C5_BadDateRangeIsRejected ==
  (Done /\ validateRequest(request).ok /\ ArgsOf(request).dateRange.present)
    => LET start == StartOf(ArgsOf(request).dateRange)
           end == EndOf(ArgsOf(request).dateRange)
       IN /\ (/\ TruthyString(start) /\ TruthyString(end)
              /\ isValidDate(start) /\ isValidDate(end)
              /\ DateGetTime(start).v > DateGetTime(end).v)
               => (/\ phase = "Failed"
                   /\ thrown = "Start date cannot be after end date"
                   /\ issued = <<>>)
          /\ ((TruthyString(start) /\ ~isValidDate(start))
              \/ (TruthyString(end) /\ ~isValidDate(end)))
               => (/\ phase = "Failed"
                   /\ thrown \in {"Invalid start date format", "Invalid end date format"})

\* C6: the text of the queries issued for a call is the text any call differing
\* only in filter values and date strings would issue.
C6_QueryTextIndependentOfValues ==
  (Done /\ invoked # "none")
    => \A other \in ArgInputs :
         DiffersOnlyInValues(ArgsOf(request), other)
           => QueryTexts(routeRequest(dbBefore, other).outcome.issued) = QueryTexts(issued)

\* C7: when the filtered order set is empty, the ratio metrics returned by
\* get_operational_metrics, analyze_customer_behavior and get_financial_summary
\* are exactly 0.
C7_RatioOverEmptyOrderSetIsZero ==
  (/\ phase = "Completed"
   /\ ArgsOf(request).operation \in
        {"get_operational_metrics", "analyze_customer_behavior", "get_financial_summary"}
   /\ OrderRows(dbBefore,
                AnalyticsBuildWhereClause(FiltersOf(ArgsOf(request)),
                                          ArgsOf(request).dateRange).conds) = {})
    => \A m \in DOMAIN result.metrics : result.metrics[m] = Num(0)

\* C8: the result of every analytic read operation holds the five fields data,
\* insights, recommendations, metrics and trends.
C8_AnalyticResultHasFiveFields ==
  (/\ phase = "Completed"
   /\ ArgsOf(request).operation \in
        {"get_customer_analytics", "get_sales_performance", "get_inventory_insights",
         "predict_sales_trends", "analyze_customer_behavior", "get_revenue_forecast",
         "identify_top_products", "analyze_market_segments", "get_operational_metrics",
         "analyze_geographic_sales", "get_financial_summary", "get_order_analytics",
         "get_product_performance"})
    => AnalyticsResultFields \subseteq result.fields

\* C9 as written: create_sales_opportunity with a customerId (or productId) that
\* is not in the store fails with a not-found error and leaves the store as it
\* was (looked at only for calls in which no field has the value 0).
C9_MissingReferenceIsNotFound ==
  (/\ Answered("create_sales_opportunity")
   /\ ArgsOf(request).parameters.customerId # Undefined
   /\ ArgsOf(request).parameters.quantity # "0"
   /\ ArgsOf(request).parameters.estimatedValue # "0"
   /\ \/ ~\E c \in dbBefore.customers : c.id = ArgsOf(request).parameters.customerId
      \/ ~\E p \in dbBefore.products : p.id = ArgsOf(request).parameters.productId)
    => (/\ phase = "Failed"
        /\ thrown \in {"Customer not found", "Product not found"}
        /\ db = dbBefore)

\* C9: create_sales_opportunity with a customerId (or productId) that is not in
\* the store fails and leaves the store as it was; the error is the
\* missing-required-fields error when the required-field check rejects the
\* call, and otherwise a not-found error (for the customer first, then for the
\* product).
C9_MissingReferenceFailsWithoutWrite ==
  LET p == ArgsOf(request).parameters
      noCustomer == ~\E c \in dbBefore.customers : c.id = p.customerId
      noProduct == ~\E q \in dbBefore.products : q.id = p.productId
  IN (Answered("create_sales_opportunity") /\ (noCustomer \/ noProduct))
       => /\ phase = "Failed"
          /\ db = dbBefore
          /\ thrown =
               IF Falsy(p.customerId) \/ Falsy(p.productId) \/ Falsy(p.quantity)
                  \/ Falsy(p.estimatedValue)
                 THEN "Missing required fields: customerId, productId, quantity, estimatedValue"
               ELSE IF noCustomer THEN "Customer not found"
               ELSE "Product not found"

\* C9 case: all four fields given, the customer id unknown to a seeded store
C9_UnknownCustomerRefused ==
  /\ Answered("create_sales_opportunity")
  /\ ArgsOf(request).parameters.customerId = "NOPE"
  /\ ArgsOf(request).parameters.productId = "PROD001"
  /\ dbBefore = SeededStore
  /\ thrown = "Customer not found"
  /\ db = dbBefore

\* C10: update_customer_info with an update map whose keys are all outside the
\* allowed fields fails with the no-valid-fields error, issues no statement
\* (so no UPDATE) and leaves the store as it was.
C10_DisallowedUpdateIsRefused ==
  (/\ Answered("update_customer_info")
   /\ ArgsOf(request).parameters.data.present
   /\ Keys(ArgsOf(request).parameters.data.val) \cap allowedFields = {})
    => (/\ phase = "Failed"
        /\ thrown = "No valid fields to update"
        /\ issued = <<>>
        /\ db = dbBefore)

\* C10 case: an existing customer, a non-empty map of disallowed keys only
C10_DisallowedKeysOnExistingCustomer ==
  /\ Answered("update_customer_info")
  /\ ArgsOf(request).parameters.customerId = "CUST001"
  /\ dbBefore = SeededStore
  /\ ArgsOf(request).parameters.data.present
  /\ ArgsOf(request).parameters.data.val # <<>>
  /\ Keys(ArgsOf(request).parameters.data.val) \cap allowedFields = {}
  /\ thrown = "No valid fields to update"
  /\ db = dbBefore

\* C11: update_customer_info with an existing customerId and an update map
\* holding at least one allowed field succeeds: the stored row takes the new
\* values of the allowed fields and the customer details are returned.
C11_AllowedUpdateSucceeds ==
  LET p == ArgsOf(request).parameters
  IN (/\ Answered("update_customer_info")
      /\ p.data.present
      /\ Keys(p.data.val) \cap allowedFields # {}
      /\ \E c \in dbBefore.customers : c.id = p.customerId)
       => /\ phase = "Completed"
          /\ db.customers =
               {IF c.id = p.customerId THEN UpdatedRow(c, updateFields(p.data.val)) ELSE c :
                  c \in dbBefore.customers}
          /\ result.fields = {"customer", "orders", "orderItems", "metrics", "summary"}

\* C12: in every report generate_business_report returns, the 'all' list of its
\* recommendations holds no string twice and every recommendation of the
\* immediate tier of the implementation plan is in 'all'.
C12_ReportRecommendationsDistinct ==
  (/\ phase = "Completed"
   /\ ArgsOf(request).operation = "generate_business_report"
   /\ "recommendations" \in DOMAIN result.data)
    => LET rec == result.data.recommendations
       IN /\ \A i, j \in 1..Len(rec.all) : rec.all[i] = rec.all[j] => i = j
          /\ \A k \in 1..Len(rec.implementation.immediate) :
               \E i \in 1..Len(rec.all) :
                 rec.all[i] = rec.implementation.immediate[k].recommendation

\* C12 case: a report was returned with nine recommendations, two of them immediate
C12_ReportWithRecommendations ==
  /\ phase = "Completed"
  /\ ArgsOf(request).operation = "generate_business_report"
  /\ "recommendations" \in DOMAIN result.data
  /\ Len(result.data.recommendations.all) = 9
  /\ Len(result.data.recommendations.implementation.immediate) = 2

\* C13: every call whose operation is one of the names of the schema's enum is
\* routed to a handler: it never reaches the 'Unknown operation' default branch.
C13_EverySchemaOperationRouted ==
  (/\ Done
   /\ validateRequest(request).ok
   /\ BusinessIntelligenceToolSchema(ArgsOf(request)).ok)
    => (invoked # "none" /\ thrown # "Unknown operation")

\* C13 case: the last name of the enum was routed to its handler
C13_ExportDataRouted ==
  /\ Answered("export_data")
  /\ invoked = "reportGenerator.exportData"

\* C14: the three sites that derive the stock-status bucket give the same
\* bucket for every quantity and reorder level: Low Stock when quantity <=
\* reorderLevel, else Medium Stock when quantity <= 2 * reorderLevel, else High Stock.
C14_StockStatusSameEverywhere ==
  unit.fn = "stock_status"
    => LET q == unit.arg.quantity
           r == unit.arg.reorder_level
           bucket == IF q <= r THEN "Low Stock"
                     ELSE IF q <= 2 * r THEN "Medium Stock" ELSE "High Stock"
       IN /\ unit.out.getInventoryInsights = bucket
          /\ unit.out.checkInventoryLevels = bucket
          /\ unit.out.exportInventoryData = bucket

\* C14 case: a quantity equal to the reorder level, bucketed Low Stock at each site
C14_QuantityAtReorderLevel ==
  /\ unit.fn = "stock_status"
  /\ unit.arg.quantity = 2
  /\ unit.arg.reorder_level = 2
  /\ unit.out.getInventoryInsights = "Low Stock"
  /\ unit.out.exportInventoryData = "Low Stock"

\* C15: the churn bucket of a customer is decided by the first threshold, tried
\* from the top, that its days since the last order exceed: > 90 High Risk,
\* else > 60 Medium Risk, else > 30 Low Risk, else Active; it is one bucket,
\* the same in both queries.
C15_ChurnBucketFirstMatch ==
  (unit.fn = "churn_risk" /\ unit.arg.k = "num")
    => LET d == unit.arg.v
       IN /\ unit.out.churnRisk =
               (IF d > 90 THEN "High Risk"
                ELSE IF d > 60 THEN "Medium Risk"
                ELSE IF d > 30 THEN "Low Risk" ELSE "Active")
          /\ unit.out.riskDistribution = unit.out.churnRisk
          /\ unit.out.churnRisk \in {"High Risk", "Medium Risk", "Low Risk", "Active"}

\* C15 case: 91 days since the last order, bucketed High Risk
C15_NinetyOneDaysHighRisk ==
  /\ unit.fn = "churn_risk"
  /\ unit.arg = Num(91)
  /\ unit.out.churnRisk = "High Risk"

\* C16: in each forecast series (3 points with floor 0.5, 12 points with floor
\* 0.3, 6 points with floor 0.3) the confidence never rises from one point to
\* the next and is never below the floor of its operation.
C16_ConfidenceNonIncreasingAboveFloor ==
  unit.fn = "confidence"
    => LET series == unit.out
           floor == IF unit.arg = "predict_sales_trends" THEN 50 ELSE 30
           points == CASE unit.arg = "predict_sales_trends" -> 3
                       [] unit.arg = "get_revenue_forecast" -> 12
                       [] unit.arg = "getSalesForecast" -> 6
       IN /\ Len(series) = points
          /\ \A i \in 1..(Len(series) - 1) : series[i + 1] <= series[i]
          /\ \A i \in 1..Len(series) : series[i] >= floor

\* C16 case: the twelve points of the revenue forecast, from 0.95 down to 0.40
C16_RevenueForecastSeries ==
  /\ unit.fn = "confidence"
  /\ unit.arg = "get_revenue_forecast"
  /\ Len(unit.out) = 12
  /\ unit.out[1] = 95
  /\ unit.out[12] = 40

\* C17: get_customer_analytics without filters returns totalCustomers equal to
\* the number of customers that have orders, each counted once, and avgCLV
\* equal to the mean of those customers' total_spent.
C17_CustomersCountedOnce ==
  (/\ phase = "Completed"
   /\ ArgsOf(request).operation = "get_customer_analytics"
   /\ FiltersOf(ArgsOf(request)) = <<>>
   /\ ~ArgsOf(request).dateRange.present)
    => LET withOrders == SetToSeq({c \in dbBefore.customers :
                                     \E o \in dbBefore.orders : o.customer_id = c.id})
           spent == SumSeq([i \in 1..Len(withOrders) |-> withOrders[i].total_spent])
           m == result.data.metrics
       IN /\ m.totalCustomers = Len(withOrders)
          /\ m.avgCLV.sum * Len(withOrders) = spent * m.avgCLV.count

\* the operations whose handlers issue only get/all queries
ReadOperations == OperationSet \ {"update_customer_info", "create_sales_opportunity"}

\* C18: every analytic read operation (every operation other than
\* update_customer_info, the inventory update and create_sales_opportunity)
\* leaves all six store tables unchanged, for any filters, date range and
\* parameters, whether its handler returns or throws.
C18_ReadOperationsLeaveStoreUnchanged ==
  (invoked # "none" /\ ArgsOf(request).operation \in ReadOperations)
    => \A t \in DOMAIN dbBefore : db[t] = dbBefore[t]

\* a read operation has run its queries against a populated store and returned
C18_ReadOperationCompletedOnSeededStore ==
  /\ phase = "Completed"
  /\ ArgsOf(request).operation = "get_sales_performance"
  /\ issued # <<>>
  /\ dbBefore = SeededStore

\* the steps a call may take: each stage is entered from the one before it, a
\* failing stage enters the catch block, and both ends hand over to the next call
PhaseOrder ==
  {<<"Idle", "Received">>,
   <<"Received", "Validated">>, <<"Received", "Caught">>,
   <<"Validated", "SchemaValidated">>, <<"Validated", "Caught">>,
   <<"SchemaValidated", "Routed">>, <<"SchemaValidated", "Caught">>,
   <<"Routed", "Completed">>, <<"Caught", "Failed">>,
   <<"Completed", "Idle">>, <<"Failed", "Idle">>}

UnknownOperationCall ==
  /\ validateRequest(request).ok
  /\ ArgsOf(request).operation \notin OperationSet

\* C19: each call moves through Received, request validation, schema
\* validation, Routed, then Completed or Failed, in that order; a handler is
\* invoked only after both request validation and schema parsing have
\* succeeded; an unknown operation name fails at schema validation; and every
\* call that ends, ends answered in exactly one of Completed (its handler
\* returned) or Failed (a stage threw).
C19_CallPhasesInOrder ==
  /\ [][phase' # phase => <<phase, phase'>> \in PhaseOrder]_vars
  /\ [](invoked # "none"
          => /\ validateRequest(request).ok
             /\ BusinessIntelligenceToolSchema(ArgsOf(request)).ok)
  /\ [](UnknownOperationCall
          => /\ phase \notin {"SchemaValidated", "Routed", "Completed"}
             /\ invoked = "none"
             /\ (Done => (phase = "Failed" /\ thrown = "ZodError: invalid operation")))
  /\ [][phase' = "Idle" /\ phase # "Idle"
          => /\ phase \in {"Completed", "Failed"}
             /\ (phase = "Completed") = (invoked # "none" /\ thrown = "")
             /\ (phase = "Failed") = (thrown # "")
             /\ response # NoResponse]_vars

\* a well-formed call naming an operation outside the enum has failed at the
\* schema, before any handler
C19_UnknownOperationFailedAtSchema ==
  /\ phase = "Failed"
  /\ UnknownOperationCall
  /\ ArgsOf(request).operation = "delete_everything"
  /\ thrown = "ZodError: invalid operation"
  /\ invoked = "none"

\* the column each allow-listed filter key constrains
FilterColumn(key) ==
  CASE key = "customerTier" -> <<"c", "customer_tier">>
    [] key = "industry" -> <<"c", "industry">>
    [] key = "region" -> <<"o", "region">>
    [] key = "productCategory" -> <<"p", "category">>
    [] key = "status" -> <<"o", "status">>

\* the allow-listed keys that carry a non-empty list
PopulatedKeys(filters) ==
  {k \in validFilterKeys :
     Has(filters, k) /\ Get(filters, k).kind = "array" /\ Get(filters, k).items # <<>>}

\* filters as the schema types them: allow-listed keys, each a list of strings
StringLists(filters) ==
  \A i \in 1..Len(filters) :
    /\ filters[i].key \in validFilterKeys
    /\ filters[i].value.kind = "array"
    /\ \A j \in 1..Len(filters[i].value.items) : filters[i].value.items[j].t = "string"

\* the columns a built clause constrains with IN
InColumns(clause) ==
  {<<clause.conds[i].alias, clause.conds[i].column>> :
     i \in {j \in 1..Len(clause.conds) : clause.conds[j].op = "IN"}}

\* C20: in every query-issuing component (AnalyticsEngine, SalesService,
\* InventoryService, ReportGenerator) the same filters and date range
\* compile to the same predicate: one column IN (values) conjunct for each
\* allow-listed key that is populated and non-empty, and none for an absent or
\* empty key.
C20_SamePredicateInEveryComponent ==
  (/\ unit.fn = "buildWhereClause"
   /\ StringLists(unit.arg.filters))
    => /\ \A a, b \in DOMAIN unit.out : unit.out[a] = unit.out[b]
       /\ \A a \in DOMAIN unit.out :
            /\ unit.out[a].error = ""
            /\ InColumns(unit.out[a])
                 = {FilterColumn(k) : k \in PopulatedKeys(unit.arg.filters)}

\* the positions of a string in a list
Positions(list, x) == {i \in 1..Len(list) : list[i] = x}

\* C21: the report's merged recommendation list contains every recommendation
\* string returned by each of the four invoked operations (customer analytics,
\* sales performance, inventory insights, financial summary), each once, in
\* first-seen order.
C21_MergedListCoversFourOperations ==
  (/\ phase = "Completed"
   /\ ArgsOf(request).operation = "generate_business_report"
   /\ "recommendations" \in DOMAIN result.data)
    => LET all == result.data.recommendations.all
           sec == result.data.sections
           seen == sec.customerAnalytics \o sec.salesPerformance
                     \o sec.inventoryInsights \o sec.financialSummary
       IN /\ \A i \in 1..Len(seen) : Cardinality(Positions(all, seen[i])) = 1
          /\ all = Unique(seen)

\* the recommendation strings of a tier, in order
TierRecommendations(tier) == [i \in 1..Len(tier) |-> tier[i].recommendation]

TierLabelled(tier, priority, timeline) ==
  \A i \in 1..Len(tier) : tier[i].priority = priority /\ tier[i].timeline = timeline

\* C22: the implementation plan partitions the deduplicated recommendation list
\* by position: immediate holds exactly elements 1-2, shortTerm elements 3-4,
\* longTerm all remaining elements; the tiers are pairwise disjoint, together
\* cover the whole list in order, and carry the labels High/1-2 weeks,
\* Medium/1-3 months, Low/3-6 months.
C22_PlanPartitionsByPosition ==
  unit.fn = "generateImplementationPlan"
    => LET list == unit.arg
           n == Len(list)
           immediate == TierRecommendations(unit.out.immediate)
           shortTerm == TierRecommendations(unit.out.shortTerm)
           longTerm == TierRecommendations(unit.out.longTerm)
           Elems(s) == {s[i] : i \in 1..Len(s)}
       IN /\ immediate = SubSeq(list, 1, IF n < 2 THEN n ELSE 2)
          /\ shortTerm = SubSeq(list, 3, IF n < 4 THEN n ELSE 4)
          /\ longTerm = SubSeq(list, 5, n)
          /\ immediate \o shortTerm \o longTerm = list
          /\ Elems(immediate) \cap Elems(shortTerm) = {}
          /\ Elems(immediate) \cap Elems(longTerm) = {}
          /\ Elems(shortTerm) \cap Elems(longTerm) = {}
          /\ TierLabelled(unit.out.immediate, "High", "1-2 weeks")
          /\ TierLabelled(unit.out.shortTerm, "Medium", "1-3 months")
          /\ TierLabelled(unit.out.longTerm, "Low", "3-6 months")

\* a plan was built from five recommendations: two immediate, two short-term,
\* one long-term
C22_FiveRecommendationsPlanned ==
  /\ unit.fn = "generateImplementationPlan"
  /\ Len(unit.arg) = 5
  /\ Len(unit.out.immediate) = 2
  /\ Len(unit.out.shortTerm) = 2
  /\ Len(unit.out.longTerm) = 1

\* the growth rate of the contract: over the recent (months 1-6) and older
\* (months 7-12) halves, 0 when the older half is empty or averages 0
ContractGrowthRate(historicalData) ==
  LET recent == Slice(historicalData, 0, 6)
      older == Slice(historicalData, 6, 12)
  IN IF older = <<>> \/ SumSeq(older) = 0 THEN Ratio(0, 1)
     ELSE Ratio((SumSeq(recent) * Len(older) - SumSeq(older) * Len(recent)) * 100,
                SumSeq(older) * Len(recent))

\* C23: growthRate in predict_sales_trends, get_revenue_forecast and
\* getSalesForecast equals (avg(recent) - avg(older)) / avg(older) * 100 over the
\* recent and older halves of the trend window, and is exactly 0 whenever
\* avg(older) is 0 or the older half has no months.
C23_GrowthRateOverHalves ==
  unit.fn = "forecast"
    => \A site \in DOMAIN unit.out :
         unit.out[site].growthRate = ContractGrowthRate(unit.arg)

\* C24: every forecast value returned by predict_sales_trends,
\* get_revenue_forecast and getSalesForecast is a number greater than or equal
\* to 0, for all historical data including an empty history and a negative
\* growth rate.
C24_ForecastValuesNonNegative ==
  unit.fn = "forecast"
    => \A site \in DOMAIN unit.out :
         \A i \in 1..Len(unit.out[site].forecast) :
           LET value == unit.out[site].forecast[i]
           IN value.k = "num" /\ value.n >= 0

\* C25: no call handler runs before the store is initialized and all services
\* are constructed: the transport is connected only after initialization, so
\* every handled call sees fully built services, each a single instance for the
\* process lifetime.
C25_CallsOnlyAfterStartup ==
  /\ [](phase # "Idle"
          => /\ server.pc = "running"
             /\ \A s \in Services : server.instances[s] = 1)
  /\ [](server.connected => server.pc = "running")
  /\ [][server.pc = "running" => server' = server]_vars

\* a call was handled by a process that went through run()
C25_CallHandledAfterRun ==
  /\ phase = "Completed"
  /\ invoked = "analyticsEngine.getCustomerAnalytics"
  /\ server = Running
  /\ dbBefore = SeededStore

\* the position of the update that fails: the first null element or the
\* statement the store rejects, whichever comes first (0: none fails)
FailingUpdate(updates, failAt) ==
  LET failing == {i \in 1..Len(updates) : updates[i].isNull \/ i = failAt}
  IN IF failing = {} THEN 0 ELSE CHOOSE i \in failing : \A j \in failing : i <= j

\* an inventory row after the updates at the given positions, the later winning
RowAfter(row, updates, positions) ==
  LET hits == {i \in positions : /\ updates[i].productId = row.product_id
                                 /\ updates[i].warehouse = row.warehouse}
  IN IF hits = {} THEN row
     ELSE LET last == CHOOSE i \in hits : \A j \in hits : j <= i
          IN [row EXCEPT !.quantity = updates[last].quantity,
                         !.reorder_level = updates[last].reorderLevel]

\* C26: updateInventoryLevels applies its updates one row at a time in list
\* order with no enclosing transaction: if the k-th update fails, rows 1..k-1
\* stay updated, rows k..n are untouched, and the call fails without reporting
\* which rows were written.
C26_PartialUpdateIsKept ==
  unit.fn = "updateInventoryLevels"
    => LET updates == unit.arg.updates
           k == FailingUpdate(updates, unit.arg.failAt)
           written == IF k = 0 THEN 1..Len(updates) ELSE 1..(k - 1)
       IN /\ db.inventory = {RowAfter(r, updates, written) : r \in dbBefore.inventory}
          /\ \A t \in DOMAIN db \ {"inventory"} : db[t] = dbBefore[t]
          /\ (k # 0) = (unit.out.error # "")
          /\ k # 0 => unit.out.updated = 0
          /\ k = 0 => unit.out.updated = Len(updates)

\* the second of two updates failed after the first had changed its row
C26_SecondUpdateFailedFirstKept ==
  /\ unit.fn = "updateInventoryLevels"
  /\ Len(unit.arg.updates) = 2
  /\ unit.arg.failAt = 2
  /\ unit.out.error # ""
  /\ db # dbBefore
  /\ \E r \in db.inventory : r.product_id = "PROD001" /\ r.quantity = 1

\* C27: create_sales_opportunity is rejected by the required-field check
\* exactly when one of customerId, productId, quantity, estimatedValue is
\* missing; a field that is present is never treated as missing because of its
\* value (for example quantity 0 or estimatedValue 0).
C27_RequiredFieldCheckByPresence ==
  Answered("create_sales_opportunity")
    => LET p == ArgsOf(request).parameters
       IN (thrown = "Missing required fields: customerId, productId, quantity, estimatedValue")
            = (\/ p.customerId = Undefined \/ p.productId = Undefined
               \/ p.quantity = Undefined \/ p.estimatedValue = Undefined)

\* the messages of a predicate naming an alias its query does not define
UndefinedAliasErrors ==
  {"SQLITE_ERROR: no such column: p.category",
   "SQLITE_ERROR: no such column: c.customer_tier",
   "SQLITE_ERROR: no such column: c.industry",
   "SQLITE_ERROR: no such column: o.region",
   "SQLITE_ERROR: no such column: o.status",
   "SQLITE_ERROR: no such column: o.order_date"}

\* C28: for every analytic operation and every populated allow-listed filter
\* key, the predicate built for the operation's query references only table
\* aliases that the query defines: no accepted filter makes an operation fail
\* with a reference to an alias absent from its query.
C28_PredicateUsesDefinedAliases ==
  (/\ Done
   /\ invoked # "none"
   /\ ArgsOf(request).operation \in FilterOperations
   /\ StringLists(FiltersOf(ArgsOf(request)))
   /\ ~ArgsOf(request).dateRange.present)
    => thrown \notin UndefinedAliasErrors

\* the calendar month i months after the month of a date
CalendarMonthAfter(date, i) ==
  LET index == date.year * 12 + (date.month - 1) + i
  IN <<index \div 12, (index % 12) + 1>>

\* C29: in predict_sales_trends and get_revenue_forecast, for every current
\* date, forecast point i (i = 1..N) is labelled with the i-th calendar month
\* after the current month, so the labels are N distinct consecutive months with
\* none skipped or repeated.
C29_ForecastMonthsConsecutive ==
  unit.fn = "forecastMonths"
    => \A site \in DOMAIN unit.out :
         \A i \in 1..Len(unit.out[site]) :
           unit.out[site][i] = CalendarMonthAfter(unit.arg, i)

\* C30: in getCustomerChurnRisk a customer with no orders at all (no last order
\* date) is bucketed Active: it never appears in the at-risk list and is counted
\* under Active in the risk distribution, and the at-risk list holds exactly the
\* customers bucketed High Risk or Medium Risk.
C30_CustomerWithoutOrdersIsActive ==
  unit.fn = "getCustomerChurnRisk"
    => LET days == unit.arg
           noOrders == {c \in DOMAIN days : days[c] = SqlNull}
           over(limit) == {c \in DOMAIN days \ noOrders : days[c].v > limit}
       IN /\ noOrders \cap unit.out.churnRisk = {}
          /\ unit.out.churnRisk = over(60)
          /\ unit.out.riskDistribution["Active"]
               = Cardinality(noOrders) + Cardinality((DOMAIN days \ noOrders) \ over(30))
          /\ unit.out.riskDistribution["High Risk"]
               + unit.out.riskDistribution["Medium Risk"] = Cardinality(unit.out.churnRisk)

\* one customer has no orders and the other ordered 91 days ago
C30_NoOrdersBesideHighRisk ==
  /\ unit.fn = "getCustomerChurnRisk"
  /\ unit.arg["CUST005"] = SqlNull
  /\ unit.arg["CUST001"] = Num(91)
  /\ unit.out.churnRisk = {"CUST001"}
  /\ unit.out.riskDistribution["Active"] = 1

====
